---- MODULE Spec2Model ----
(***************************************************************************)
(* A model of four subsystems of the rr record-and-replay engine:          *)
(*                                                                         *)
(*   - the syscall-buffering library       (src/src/preload/preload.c)     *)
(*   - the parallel compressed writer      (src/src/CompressedWriter.cc)   *)
(*   - the debugger server's diversions    (src/src/GdbServer.cc)          *)
(*   - the address space's breakpoints     (src/src/AddressSpace.h)        *)
(*                                                                         *)
(* Each subsystem has its own variables, initial predicate, actions and    *)
(* specification (SpecSyscallbuf, SpecWriter, ...).  A specification       *)
(* leaves the variables of the other subsystems at their idle value.       *)
(***************************************************************************)
EXTENDS Integers, Sequences, FiniteSets, TLC

VARIABLES
  \* ---- syscall buffer (preload.c) ----
  sb_hdr,           \* struct syscallbuf_hdr: locked, num_rec_bytes, abort_commit,
                    \* desched_signal_may_be_relevant
  sb_rec,           \* record area: offset of a record -> its header fields
  sb_fresh,         \* per offset: the header fields stored there since the tracer
                    \* last consumed a record there (the rest is stale memory)
  sb_armed,         \* whether the desched counter (perf event) is enabled
  sb_fds_disabled,  \* syscallbuf_fds_disabled[]
  sb_stack          \* call stack of syscall wrappers: the interrupted wrapper
                    \* and the wrappers called from signal handlers above it

sbVars == <<sb_hdr, sb_rec, sb_fresh, sb_armed, sb_fds_disabled, sb_stack>>

VARIABLES
  \* ---- compressed writer (CompressedWriter.cc) ----
  cw,               \* the CompressedWriter's fields
  cw_prod,          \* the producer thread: where it is in write()/close()
  cw_thr,           \* per compression thread: where it is in compression_thread()
  cw_waiting,       \* the threads blocked in pthread_cond_wait(&cond, &mutex)
  cw_file,          \* the blocks ::write has put into the file, in file order
  cw_io_failed      \* some ::write to the file failed

cwVars == <<cw, cw_prod, cw_thr, cw_waiting, cw_file, cw_io_failed>>

VARIABLES
  \* ---- debugger server (GdbServer.cc) ----
  gdb               \* GdbServer's state in and around divert(), the tracees of
                    \* the replay session and of the diversion session, and the
                    \* breakpoints of the timeline and of the diversion

gdbVars == <<gdb>>

VARIABLES
  \* ---- address space (AddressSpace.h) ----
  as_mem,           \* the tracee's code bytes, per address
  as_breakpoints,   \* AddressSpace::breakpoints: address -> Breakpoint
  as_aborted,       \* an assertion has ended the process
  as_log            \* the last call, and the references the callers hold

asVars == <<as_mem, as_breakpoints, as_aborted, as_log>>

VARIABLES
  \* ---- memory map (AddressSpace.h) ----
  mm_mem,           \* AddressSpace::mem: the mappings
  mm_walk           \* a loop over maps(): its iterator and what it has seen

mmVars == <<mm_mem, mm_walk>>

VARIABLES
  ts_events,   \* the events substream of the trace: the values written, in order
  ts_writer,   \* TraceWriter: global_time, whether it is still open, frames passed
  ts_reader    \* TraceReader: position, global_time, frames returned, aborted

tsVars == <<ts_events, ts_writer, ts_reader>>

VARIABLES
  ks_tasks,     \* each Task of the session: its flags, registers and what was done to it
  ks_task_map,  \* Session::task_map: the tids still in the session
  ks_ctl        \* kill_all_tasks: where it is, the task at hand, failed detaches

ksVars == <<ks_tasks, ks_task_map, ks_ctl>>

VARIABLES
  ar_task,     \* the tracee: its registers and its memory
  ar_remote,   \* the AutoRemoteSyscalls scope: state, initial_regs, initial_ip, initial_sp
  ar_saves,    \* the live AutoRestoreMem objects, innermost last
  ar_orig      \* the tracee when the scope began and when the first area was made

arVars == <<ar_task, ar_remote, ar_saves, ar_orig>>

VARIABLES
  us_env,   \* in_replay and the ret field of the current record
  us_cpu   \* untraced_syscall_base: position, ret (%rax), tmp_in_replay (%cl), ZF

usVars == <<us_env, us_cpu>>

VARIABLES
  rg_files,   \* the architecture and the two register files that are compared
  rg_cmp   \* what compare_register_files_internal found

rgVars == <<rg_files, rg_cmp>>

VARIABLES
  tm_session,   \* Session: task_map, next_task_serial_, tasks made so far
  tm_gdb   \* a TaskUid kept across steps, the Task it was taken from, and what find_task made of it

tmVars == <<tm_session, tm_gdb>>

VARIABLES
  rp_session,   \* ReplaySession: task_map, the trace and the current trace_frame
  rp_resumed   \* the tasks replay has resumed, in order

rpVars == <<rp_session, rp_resumed>>

VARIABLES
  tv_dir,   \* a trace directory: its version file and how many frames it holds
  tv_reader   \* the process that opens the trace: its TraceReader, what it printed, frames read

tvVars == <<tv_dir, tv_reader>>

VARIABLES
  ds,   \* GdbServer in serve_replay: its fields, the timeline's position, breakpoints and explicit checkpoints
  ds_sent   \* what the last step sent to the debugger

dsVars == <<ds, ds_sent>>

VARIABLES
  th_session,   \* the session's task_map while the debugger asks about threads
  th_gdb   \* GdbServer's last_query_tuid and last_continue_tuid, and its last reply

thVars == <<th_session, th_gdb>>

VARIABLES
  rf_tracer,   \* the tracer's position in retrieve_fd_arch and what it holds
  rf_tracee,   \* the tracee: stopped, or inside the syscall it was resumed into
  rf_sock,   \* the kernel's side of the AF_UNIX sockets
  rf_events   \* what has happened so far in the current retrieval, in order

rfVars == <<rf_tracer, rf_tracee, rf_sock, rf_events>>

vars == <<sbVars, cwVars, gdbVars, asVars, mmVars, tsVars, ksVars, arVars, usVars, rgVars, tmVars, rpVars, tvVars, dsVars, thVars, rfVars>>

\* What the actions of one subsystem leave alone.
sbOthers == <<cwVars, gdbVars, asVars, mmVars, tsVars, ksVars, arVars, usVars, rgVars, tmVars, rpVars, tvVars, dsVars, thVars, rfVars>>
cwOthers == <<sbVars, gdbVars, asVars, mmVars, tsVars, ksVars, arVars, usVars, rgVars, tmVars, rpVars, tvVars, dsVars, thVars, rfVars>>
gdbOthers == <<sbVars, cwVars, asVars, mmVars, tsVars, ksVars, arVars, usVars, rgVars, tmVars, rpVars, tvVars, dsVars, thVars, rfVars>>
asOthers == <<sbVars, cwVars, gdbVars, mmVars, tsVars, ksVars, arVars, usVars, rgVars, tmVars, rpVars, tvVars, dsVars, thVars, rfVars>>
mmOthers == <<sbVars, cwVars, gdbVars, asVars, tsVars, ksVars, arVars, usVars, rgVars, tmVars, rpVars, tvVars, dsVars, thVars, rfVars>>
tsOthers == <<sbVars, cwVars, gdbVars, asVars, mmVars, ksVars, arVars, usVars, rgVars, tmVars, rpVars, tvVars, dsVars, thVars, rfVars>>
ksOthers == <<sbVars, cwVars, gdbVars, asVars, mmVars, tsVars, arVars, usVars, rgVars, tmVars, rpVars, tvVars, dsVars, thVars, rfVars>>
arOthers == <<sbVars, cwVars, gdbVars, asVars, mmVars, tsVars, ksVars, usVars, rgVars, tmVars, rpVars, tvVars, dsVars, thVars, rfVars>>
usOthers == <<sbVars, cwVars, gdbVars, asVars, mmVars, tsVars, ksVars, arVars, rgVars, tmVars, rpVars, tvVars, dsVars, thVars, rfVars>>
rgOthers == <<sbVars, cwVars, gdbVars, asVars, mmVars, tsVars, ksVars, arVars, usVars, tmVars, rpVars, tvVars, dsVars, thVars, rfVars>>
tmOthers == <<sbVars, cwVars, gdbVars, asVars, mmVars, tsVars, ksVars, arVars, usVars, rgVars, rpVars, tvVars, dsVars, thVars, rfVars>>
rpOthers == <<sbVars, cwVars, gdbVars, asVars, mmVars, tsVars, ksVars, arVars, usVars, rgVars, tmVars, tvVars, dsVars, thVars, rfVars>>
tvOthers == <<sbVars, cwVars, gdbVars, asVars, mmVars, tsVars, ksVars, arVars, usVars, rgVars, tmVars, rpVars, dsVars, thVars, rfVars>>
dsOthers == <<sbVars, cwVars, gdbVars, asVars, mmVars, tsVars, ksVars, arVars, usVars, rgVars, tmVars, rpVars, tvVars, thVars, rfVars>>
thOthers == <<sbVars, cwVars, gdbVars, asVars, mmVars, tsVars, ksVars, arVars, usVars, rgVars, tmVars, rpVars, tvVars, dsVars, rfVars>>
rfOthers == <<sbVars, cwVars, gdbVars, asVars, mmVars, tsVars, ksVars, arVars, usVars, rgVars, tmVars, rpVars, tvVars, dsVars, thVars>>



(***************************************************************************)
(*                    SYSCALL BUFFER  (preload.c)                          *)
(***************************************************************************)

\* Width of a pointer / size_t in bits, scaled down.
PtrBits == 8
PtrMod == 2 ^ PtrBits

\* Address at which the thread's buffer segment is mapped.
BufferAddr == 64
\* SYSCALLBUF_BUFFER_SIZE, scaled down.
SYSCALLBUF_BUFFER_SIZE == 64
\* SYSCALLBUF_FDS_DISABLED_SIZE, scaled down.
SYSCALLBUF_FDS_DISABLED_SIZE == 1
\* sizeof(struct syscallbuf_hdr) and sizeof(struct syscallbuf_record).
SizeofHdr == 16
SizeofRecord == 16
\* How deep signal handlers may nest on top of the interrupted wrapper.
MaxNesting == 1

NULL == 0

\* Pointer arithmetic wraps at the pointer width.
Wrap(x) == x % PtrMod

\* Round up to a whole number of 64-bit words.
stored_record_size(length) == Wrap(((Wrap(length) + 7) \div 8) * 8)

\* Offsets (from the first record) at which a record header can lie.
RecOffsets == {o \in 0..(SYSCALLBUF_BUFFER_SIZE - SizeofHdr - 1) : o % 8 = 0}

\* next_record(hdr): the byte just after the last valid record.
buffer_last == Wrap(BufferAddr + SizeofHdr + sb_hdr.num_rec_bytes)
buffer_end == BufferAddr + SYSCALLBUF_BUFFER_SIZE

\* The offset of the record at address a, when a is a record slot of the buffer.
OffsetOf(a) == a - (BufferAddr + SizeofHdr)
IsSlot(a) == OffsetOf(a) \in RecOffsets

Fds == (0 - 1)..SYSCALLBUF_FDS_DISABLED_SIZE
\* Byte counts a caller of read() passes: small ones, and two that are as
\* large as the addresses of the buffer (one inside it, one past its end).
SmallCounts == {0, 3}
BigCounts == {BufferAddr + SizeofHdr + SizeofRecord + 8, buffer_end + 8}
Counts == SmallCounts \cup BigCounts

Top == sb_stack[Len(sb_stack)]
SetTop(f) == [sb_stack EXCEPT ![Len(sb_stack)] = f]
AtPc(p) == Len(sb_stack) > 0 /\ Top.pc = p

SbInit ==
  /\ sb_hdr = [locked |-> 0, num_rec_bytes |-> 0, abort_commit |-> 0,
               desched_signal_may_be_relevant |-> 0]
  /\ sb_rec = [o \in RecOffsets |->
                 [syscallno |-> "zero", desched |-> 0, size |-> 0, ret |-> 0]]
  /\ sb_fresh = [o \in RecOffsets |-> {}]
  /\ sb_armed = FALSE
  /\ sb_fds_disabled = [fd \in 0..(SYSCALLBUF_FDS_DISABLED_SIZE - 1) |-> 0]
  /\ sb_stack = <<>>

\* ---- helpers of the wrappers -------------------------------------------

\* prep_syscall(): NULL when the buffer is already locked (re-entry from a
\* signal handler); otherwise takes the lock and returns the address just
\* past the header of the record to come.
prep_syscall ==
  IF sb_hdr.locked # 0
    THEN [ptr |-> NULL, locked |-> sb_hdr.locked]
    ELSE [ptr |-> Wrap(buffer_last + SizeofRecord), locked |-> 1]

\* The test of prep_syscall_for_fd: fd is outside the table or marked in it.
FdDisabled(fd) ==
  fd < 0 \/ fd >= SYSCALLBUF_FDS_DISABLED_SIZE \/ sb_fds_disabled[fd] # 0

\* prep_syscall_for_fd(fd): NULL when syscallbuf is disabled for fd.
prep_syscall_for_fd(fd) ==
  IF FdDisabled(fd)
    THEN [ptr |-> NULL, locked |-> sb_hdr.locked]
    ELSE prep_syscall

\* stored_end of start_commit_buffered_syscall.
StoredEnd(record_start, record_end) ==
  Wrap(record_start + stored_record_size(Wrap(record_end - record_start)))

\* "Either a catastrophic buffer overflow or we failed to lock the buffer."
BailsOut(record_start, record_end) ==
  StoredEnd(record_start, record_end) < Wrap(record_start + SizeofRecord)

\* "Buffer overflow.  Unlock the buffer and execute the system call with a trap."
Overflows(record_start, record_end) ==
  StoredEnd(record_start, record_end) > buffer_end - SizeofRecord

\* copy_output_buffer(ret_size, ptr, buf, buf2): the new end of the record.
copy_output_buffer(ret_size, ptr, buf2) ==
  IF buf2 = NULL THEN ptr
  ELSE IF ret_size <= 0 THEN buf2
  ELSE Wrap(buf2 + ret_size)

\* What the kernel may return for the untraced syscall of frame f.
KernelRets(f) ==
  IF f.w = "read" THEN {0 - 1} \cup ((SmallCounts \ {0}) \cap {f.count})
  ELSE {0}

Store(o, field, v) == [sb_rec EXCEPT ![o][field] = v]
MarkFresh(o, field) == [sb_fresh EXCEPT ![o] = @ \cup {field}]
Logged(f, e) == [f EXCEPT !.log = Append(@, e)]

\* ---- entering a wrapper ------------------------------------------------

\* The prologue of a wrapper, which no signal interrupts:
\*   void* ptr = prep_syscall_for_fd(fd);      (sys_access: prep_syscall())
\*   if (buf && count > 0) { buf2 = ptr; ptr += count; }
\* r is what prep_syscall returned; fd_off remembers that the call was a read
\* on an fd for which syscallbuf is disabled.
Prologue(w, count, r, fd_off) ==
  [w |-> w,
   fd_off |-> fd_off,
   no |-> IF w = "read" THEN "SYS_read" ELSE "SYS_access",
   blk |-> IF w = "read" THEN "MAY_BLOCK" ELSE "WONT_BLOCK",
   count |-> count,
   took_lock |-> r.ptr # NULL,
   buf2 |-> IF w = "read" /\ count > 0 THEN r.ptr ELSE NULL,
   ptr |-> IF w = "read" /\ count > 0 THEN Wrap(r.ptr + count) ELSE r.ptr,
   rec |-> NULL, ret |-> 0,
   desched_seen |-> FALSE,
   aborting |-> FALSE,
   log |-> <<>>,
   pc |-> "start"]

\* sys_read(fd, buf, count) or sys_access(path, mode) is called with the
\* wrappers on `stack` already active.
Call(stack) ==
  \E w \in {"read", "access"}, fd \in Fds, count \in Counts :
    /\ w = "access" => (fd = 0 /\ count = 0)
    /\ LET r == IF w = "read" THEN prep_syscall_for_fd(fd) ELSE prep_syscall
       IN /\ sb_hdr' = [sb_hdr EXCEPT !.locked = r.locked]
          /\ sb_stack' = Append(stack, Prologue(w, count, r, w = "read" /\ FdDisabled(fd)))

\* The application calls a wrapped syscall.
SysEnter ==
  /\ sb_stack = <<>>
  /\ Call(sb_stack)
  /\ UNCHANGED <<sb_rec, sb_fresh, sb_armed, sb_fds_disabled>>
  /\ UNCHANGED sbOthers

\* A signal interrupts a blocked may-block untraced syscall, and its handler
\* calls a wrapped syscall.  The task was descheduled when it blocked, so the
\* tracer has seen the desched event; signals that arrive while the library
\* runs its own code are held back by the tracer until the wrapper is left.
SignalHandlerEnter ==
  /\ AtPc("untraced")
  /\ Top.blk = "MAY_BLOCK"
  /\ Top.desched_seen
  /\ Len(sb_stack) <= MaxNesting
  /\ Call(sb_stack)
  /\ UNCHANGED <<sb_rec, sb_fresh, sb_armed, sb_fds_disabled>>
  /\ UNCHANGED sbOthers

\* ---- start_commit_buffered_syscall -------------------------------------

\* if (stored_end < record_start + sizeof(struct syscallbuf_record)) return 0;
StartCommitBail ==
  /\ AtPc("start")
  /\ BailsOut(buffer_last, Top.ptr)
  /\ sb_stack' = SetTop([Top EXCEPT !.rec = buffer_last, !.pc = "traced"])
  /\ UNCHANGED <<sb_hdr, sb_rec, sb_fresh, sb_armed, sb_fds_disabled>>
  /\ UNCHANGED sbOthers

\* if (stored_end > buffer_end() - sizeof(...)) { locked = 0; return 0; }
StartCommitOverflow ==
  /\ AtPc("start")
  /\ ~BailsOut(buffer_last, Top.ptr)
  /\ Overflows(buffer_last, Top.ptr)
  /\ sb_hdr' = [sb_hdr EXCEPT !.locked = 0]
  /\ sb_stack' = SetTop([Top EXCEPT !.rec = buffer_last, !.pc = "traced"])
  /\ UNCHANGED <<sb_rec, sb_fresh, sb_armed, sb_fds_disabled>>
  /\ UNCHANGED sbOthers

StartCommitOk ==
  /\ AtPc("start")
  /\ ~BailsOut(buffer_last, Top.ptr)
  /\ ~Overflows(buffer_last, Top.ptr)
  /\ sb_stack' = SetTop([Top EXCEPT !.rec = buffer_last,
                           !.pc = IF IsSlot(buffer_last) THEN "st_no" ELSE "wild"])
  /\ UNCHANGED <<sb_hdr, sb_rec, sb_fresh, sb_armed, sb_fds_disabled>>
  /\ UNCHANGED sbOthers

\* rec->syscallno = syscallno;
StoreSyscallno ==
  /\ AtPc("st_no")
  /\ LET f == Top  o == OffsetOf(f.rec)
     IN /\ sb_rec' = Store(o, "syscallno", f.no)
        /\ sb_fresh' = MarkFresh(o, "syscallno")
        /\ sb_stack' = SetTop([f EXCEPT !.pc = "st_desched"])
  /\ UNCHANGED <<sb_hdr, sb_armed, sb_fds_disabled>>
  /\ UNCHANGED sbOthers

\* rec->desched = MAY_BLOCK == blockness;
StoreDesched ==
  /\ AtPc("st_desched")
  /\ LET f == Top  o == OffsetOf(f.rec)
     IN /\ sb_rec' = Store(o, "desched", IF f.blk = "MAY_BLOCK" THEN 1 ELSE 0)
        /\ sb_stack' = SetTop([f EXCEPT !.pc = "st_size"])
  /\ UNCHANGED <<sb_hdr, sb_fresh, sb_armed, sb_fds_disabled>>
  /\ UNCHANGED sbOthers

\* rec->size = record_end - record_start;  if (rec->desched) ...
StoreSize ==
  /\ AtPc("st_size")
  /\ LET f == Top  o == OffsetOf(f.rec)
     IN /\ sb_rec' = Store(o, "size", Wrap(f.ptr - f.rec))
        /\ sb_fresh' = MarkFresh(o, "size")
        /\ sb_stack' = SetTop([f EXCEPT
             !.pc = IF sb_rec[o].desched # 0 THEN "set_flag" ELSE "untraced"])
  /\ UNCHANGED <<sb_hdr, sb_armed, sb_fds_disabled>>
  /\ UNCHANGED sbOthers

\* buffer_hdr()->desched_signal_may_be_relevant = 1;
SetDeschedFlag ==
  /\ AtPc("set_flag")
  /\ sb_hdr' = [sb_hdr EXCEPT !.desched_signal_may_be_relevant = 1]
  /\ sb_stack' = SetTop([Logged(Top, "set_flag") EXCEPT !.pc = "arm"])
  /\ UNCHANGED <<sb_rec, sb_fresh, sb_armed, sb_fds_disabled>>
  /\ UNCHANGED sbOthers

\* arm_desched_event();
arm_desched_event ==
  /\ AtPc("arm")
  /\ sb_armed' = TRUE
  /\ sb_stack' = SetTop([Logged(Top, "arm") EXCEPT !.pc = "untraced"])
  /\ UNCHANGED <<sb_hdr, sb_rec, sb_fresh, sb_fds_disabled>>
  /\ UNCHANGED sbOthers

\* ret = untraced_syscall3(syscallno, fd, buf2, count);
\* ptr = copy_output_buffer(ret, ptr, buf, buf2);
UntracedSyscall ==
  /\ AtPc("untraced")
  /\ \E ret \in KernelRets(Top) :
       sb_stack' = SetTop([Logged(Top, "syscall") EXCEPT
         !.ret = ret,
         !.ptr = IF Top.w = "read" THEN copy_output_buffer(ret, Top.ptr, Top.buf2)
                 ELSE Top.ptr,
         !.pc = "c_size"])
  /\ UNCHANGED <<sb_hdr, sb_rec, sb_fresh, sb_armed, sb_fds_disabled>>
  /\ UNCHANGED sbOthers

\* The desched signal fires while the task is blocked in the untraced
\* syscall.  The tracer records the syscall as a normal entry/exit pair and
\* sets abort_commit, so that the library does not commit the record.
TracerDesched ==
  /\ AtPc("untraced")
  /\ sb_armed
  /\ ~Top.desched_seen
  /\ sb_hdr' = [sb_hdr EXCEPT !.abort_commit = 1]
  /\ sb_stack' = SetTop([Top EXCEPT !.desched_seen = TRUE])
  /\ UNCHANGED <<sb_rec, sb_fresh, sb_armed, sb_fds_disabled>>
  /\ UNCHANGED sbOthers

\* ---- commit_raw_syscall ------------------------------------------------

\* The assert() of commit_raw_syscall that fails at the current statement, if
\* one does.  A build with assertions raises SIGABRT; a build with NDEBUG
\* carries on.
FailedAssert ==
  \/ AtPc("c_size") /\ Top.ptr < buffer_last       \* assert(record_end >= record_start)
  \/ AtPc("c_locked") /\ sb_hdr.locked = 0         \* assert(buffer_hdr()->locked)

CommitAssertAborts ==
  /\ FailedAssert
  /\ sb_stack' = SetTop([Top EXCEPT !.pc = "aborted"])
  /\ UNCHANGED <<sb_hdr, sb_rec, sb_fresh, sb_armed, sb_fds_disabled>>
  /\ UNCHANGED sbOthers

\* commit_raw_syscall with its two statements swapped: the desched counter is
\* disarmed while desched_signal_may_be_relevant is still set.
DisarmBeforeClear ==
  /\ AtPc("c_clear")
  /\ sb_armed' = FALSE
  /\ sb_stack' = SetTop([Logged(Top, "disarm") EXCEPT !.pc = "c_check"])
  /\ UNCHANGED <<sb_hdr, sb_rec, sb_fresh, sb_fds_disabled>>
  /\ UNCHANGED sbOthers

\* void* record_start = buffer_last();  rec->size = record_end - record_start;
CommitSize ==
  /\ AtPc("c_size")
  /\ LET f == Top  o == OffsetOf(buffer_last)
     IN IF IsSlot(buffer_last)
          THEN /\ sb_rec' = Store(o, "size", Wrap(f.ptr - buffer_last))
               /\ sb_fresh' = MarkFresh(o, "size")
               /\ sb_stack' = SetTop([f EXCEPT !.rec = buffer_last, !.pc = "c_locked"])
          ELSE /\ sb_stack' = SetTop([f EXCEPT !.rec = buffer_last, !.pc = "wild"])
               /\ UNCHANGED <<sb_rec, sb_fresh>>
  /\ UNCHANGED <<sb_hdr, sb_armed, sb_fds_disabled>>
  /\ UNCHANGED sbOthers

\* assert(buffer_hdr()->locked);
CommitAssertLocked ==
  /\ AtPc("c_locked")
  /\ sb_stack' = SetTop([Top EXCEPT !.pc = "c_clear"])
  /\ UNCHANGED <<sb_hdr, sb_rec, sb_fresh, sb_armed, sb_fds_disabled>>
  /\ UNCHANGED sbOthers

\* hdr->desched_signal_may_be_relevant = 0;
ClearDeschedFlag ==
  /\ AtPc("c_clear")
  /\ sb_hdr' = [sb_hdr EXCEPT !.desched_signal_may_be_relevant = 0]
  /\ sb_stack' = SetTop([Logged(Top, "clear_flag") EXCEPT !.pc = "c_check"])
  /\ UNCHANGED <<sb_rec, sb_fresh, sb_armed, sb_fds_disabled>>
  /\ UNCHANGED sbOthers

\* if (rec->syscallno != syscallno) fatal(...);  if (hdr->abort_commit) ... else ...
CommitCheckSyscallno ==
  /\ AtPc("c_check")
  /\ LET f == Top  o == OffsetOf(f.rec)
     IN sb_stack' = SetTop([f EXCEPT !.pc =
          IF sb_rec[o].syscallno # f.no THEN "aborted"
          ELSE IF sb_hdr.abort_commit # 0 THEN "c_abort"
          ELSE "c_ret"])
  /\ UNCHANGED <<sb_hdr, sb_rec, sb_fresh, sb_armed, sb_fds_disabled>>
  /\ UNCHANGED sbOthers

\* hdr->abort_commit = 0;   (aborting remembers that the commit took this path)
CommitAbort ==
  /\ AtPc("c_abort")
  /\ sb_hdr' = [sb_hdr EXCEPT !.abort_commit = 0]
  /\ sb_stack' = SetTop([Top EXCEPT !.aborting = TRUE, !.pc = "c_abort_ret"])
  /\ UNCHANGED <<sb_rec, sb_fresh, sb_armed, sb_fds_disabled>>
  /\ UNCHANGED sbOthers

\* rec->ret = 0;   (abort path)
CommitAbortRet ==
  /\ AtPc("c_abort_ret")
  /\ LET f == Top  o == OffsetOf(f.rec)
     IN /\ sb_rec' = Store(o, "ret", 0)
        /\ sb_fresh' = MarkFresh(o, "ret")
        /\ sb_stack' = SetTop([f EXCEPT !.pc = "c_desched"])
  /\ UNCHANGED <<sb_hdr, sb_armed, sb_fds_disabled>>
  /\ UNCHANGED sbOthers

\* rec->ret = ret;
CommitRet ==
  /\ AtPc("c_ret")
  /\ LET f == Top  o == OffsetOf(f.rec)
     IN /\ sb_rec' = Store(o, "ret", f.ret)
        /\ sb_fresh' = MarkFresh(o, "ret")
        /\ sb_stack' = SetTop([f EXCEPT !.pc = "c_nrb"])
  /\ UNCHANGED <<sb_hdr, sb_armed, sb_fds_disabled>>
  /\ UNCHANGED sbOthers

\* hdr->num_rec_bytes += stored_record_size(rec->size);
CommitNumRecBytes ==
  /\ AtPc("c_nrb")
  /\ LET f == Top  o == OffsetOf(f.rec)
     IN /\ sb_hdr' = [sb_hdr EXCEPT !.num_rec_bytes =
                        Wrap(@ + stored_record_size(sb_rec[o].size))]
        /\ sb_stack' = SetTop([f EXCEPT !.pc = "c_desched"])
  /\ UNCHANGED <<sb_rec, sb_fresh, sb_armed, sb_fds_disabled>>
  /\ UNCHANGED sbOthers

\* The tracer's reset of the record counter: the buffer is empty again and
\* the records it covered are stale memory.
TracerReset(hdr) == [hdr EXCEPT !.num_rec_bytes = 0]
Consumed == [o \in RecOffsets |-> IF o < sb_hdr.num_rec_bytes THEN {} ELSE sb_fresh[o]]

\* if (rec->desched) disarm_desched_event();
\* For a syscall that was descheduled the tracer uses this ioctl as the stable
\* point at which it may reset the record counter.
disarm_desched_event ==
  /\ AtPc("c_desched")
  /\ sb_rec[OffsetOf(Top.rec)].desched # 0
  /\ sb_armed' = FALSE
  /\ sb_stack' = SetTop([Logged(Top, "disarm") EXCEPT !.pc = "c_unlock"])
  /\ \E reset \in (IF Top.desched_seen THEN {TRUE, FALSE} ELSE {FALSE}) :
       IF reset
         THEN /\ sb_hdr' = TracerReset(sb_hdr)
              /\ sb_fresh' = Consumed
         ELSE UNCHANGED <<sb_hdr, sb_fresh>>
  /\ UNCHANGED <<sb_rec, sb_fds_disabled>>
  /\ UNCHANGED sbOthers

CommitNoDisarm ==
  /\ AtPc("c_desched")
  /\ sb_rec[OffsetOf(Top.rec)].desched = 0
  /\ sb_stack' = SetTop([Top EXCEPT !.pc = "c_unlock"])
  /\ UNCHANGED <<sb_hdr, sb_rec, sb_fresh, sb_armed, sb_fds_disabled>>
  /\ UNCHANGED sbOthers

\* buffer_hdr()->locked = 0;  return ret;
CommitUnlock ==
  /\ AtPc("c_unlock")
  /\ sb_hdr' = [sb_hdr EXCEPT !.locked = 0]
  /\ sb_stack' = SetTop([Top EXCEPT !.pc = "return"])
  /\ UNCHANGED <<sb_rec, sb_fresh, sb_armed, sb_fds_disabled>>
  /\ UNCHANGED sbOthers

\* The wrapper returns to its caller.
SysReturn ==
  /\ AtPc("return")
  /\ sb_stack' = SubSeq(sb_stack, 1, Len(sb_stack) - 1)
  /\ UNCHANGED <<sb_hdr, sb_rec, sb_fresh, sb_armed, sb_fds_disabled>>
  /\ UNCHANGED sbOthers

\* return traced_raw_syscall(call);  The syscall traps to the tracer, which
\* flushes the buffer and, unless a transaction is in progress (locked),
\* resets it.
traced_raw_syscall ==
  /\ AtPc("traced")
  /\ IF sb_hdr.locked = 0
       THEN /\ sb_hdr' = TracerReset(sb_hdr)
            /\ sb_fresh' = Consumed
       ELSE UNCHANGED <<sb_hdr, sb_fresh>>
  /\ sb_stack' = SetTop([Top EXCEPT !.pc = "return"])
  /\ UNCHANGED <<sb_rec, sb_armed, sb_fds_disabled>>
  /\ UNCHANGED sbOthers

\* The tracer turns syscall buffering on or off for a file descriptor, while
\* the tracee is stopped outside the wrappers.
TracerSetFdDisabled ==
  /\ sb_stack = <<>>
  /\ \E fd \in DOMAIN sb_fds_disabled :
       sb_fds_disabled' = [sb_fds_disabled EXCEPT ![fd] = 1 - @]
  /\ UNCHANGED <<sb_hdr, sb_rec, sb_fresh, sb_armed, sb_stack>>
  /\ UNCHANGED sbOthers

SbNext ==
  \/ SysEnter \/ SignalHandlerEnter
  \/ StartCommitBail \/ StartCommitOverflow \/ StartCommitOk
  \/ StoreSyscallno \/ StoreDesched \/ StoreSize
  \/ SetDeschedFlag \/ arm_desched_event
  \/ UntracedSyscall \/ TracerDesched
  \/ CommitAssertAborts \/ CommitSize \/ CommitAssertLocked \/ ClearDeschedFlag
  \/ CommitCheckSyscallno \/ CommitAbort \/ CommitAbortRet
  \/ CommitRet \/ CommitNumRecBytes
  \/ disarm_desched_event \/ CommitNoDisarm \/ CommitUnlock
  \/ SysReturn \/ traced_raw_syscall \/ TracerSetFdDisabled

(***************************************************************************)
(*                COMPRESSED WRITER  (CompressedWriter.cc)                 *)
(***************************************************************************)

\* The constructor's arguments.
block_size == 2
num_threads == 2

\* The most bytes the producer hands to write() in a run of the model.
MaxBytes == 9

\* thread_pos[i] = UINT64_MAX: the thread holds no block.  The model's positions
\* stay far below the largest integer it can compute with.
UINT64_MAX == 2147483647

Threads == 0..(num_threads - 1)
Producer == num_threads          \* the producer's name in cw_waiting

\* buffer.resize(block_size * (num_threads + 2));
BufferSize == block_size * (num_threads + 2)

\* The sizes the producer passes to write().
WriteSizes == {1, 2 * block_size + 1}

Min(a, b) == IF a <= b THEN a ELSE b

IdleProducer ==
  [pc |-> "ready", size |-> 0, wait_flag |-> "NOWAIT", ret_to |-> "ready",
   poisoned |-> FALSE]

\* The constructor.  When the file cannot be created it sets error and starts
\* no thread.
CwConstructed(opened) ==
  /\ cw = [fd_open |-> opened,
           thread_pos |-> [i \in Threads |-> UINT64_MAX],
           next_thread_pos |-> 0, next_thread_end_pos |-> 0,
           closing |-> FALSE, write_error |-> FALSE,
           producer_reserved_pos |-> 0, producer_reserved_write_pos |-> 0,
           producer_reserved_upto_pos |-> 0,
           error |-> ~opened]
  /\ cw_prod = IdleProducer
  /\ cw_thr = [i \in Threads |->
                 [pc |-> IF opened THEN "top" ELSE "unstarted", ulen |-> 0]]
  /\ cw_waiting = {}
  /\ cw_file = <<>>
  /\ cw_io_failed = FALSE

CwInit == \E opened \in BOOLEAN : CwConstructed(opened)

\* The writer while another subsystem is being examined.
CwIdle == CwConstructed(FALSE)

\* ---- the producer: write() ---------------------------------------------

\* while (!error && size > 0)
WriteLoopContinues(c, size) == ~c.error /\ size > 0

\* The producer calls write(data, size).
Write ==
  /\ cw_prod.pc = "ready"
  /\ \E size \in WriteSizes :
       /\ cw.producer_reserved_write_pos + size <= MaxBytes
       /\ cw_prod' = [cw_prod EXCEPT !.pc = "w_loop", !.size = size,
                                     !.poisoned = cw.write_error]
  /\ UNCHANGED <<cw, cw_thr, cw_waiting, cw_file, cw_io_failed>>
  /\ UNCHANGED cwOthers

\* One iteration of write()'s loop: ask for a reservation when there is none,
\* else copy as much as fits.
WriteLoop ==
  /\ cw_prod.pc = "w_loop"
  /\ WriteLoopContinues(cw, cw_prod.size)
  /\ LET reservation_size ==
           cw.producer_reserved_upto_pos - cw.producer_reserved_write_pos
         buf_offset == cw.producer_reserved_write_pos % BufferSize
         amount == Min(BufferSize - buf_offset, Min(reservation_size, cw_prod.size))
     IN IF reservation_size = 0
          THEN /\ cw_prod' = [cw_prod EXCEPT !.pc = "ur", !.wait_flag = "WAIT",
                                             !.ret_to = "w_loop"]
               /\ UNCHANGED cw
          ELSE /\ cw' = [cw EXCEPT !.producer_reserved_write_pos = @ + amount]
               /\ cw_prod' = [cw_prod EXCEPT !.size = @ - amount]
  /\ UNCHANGED <<cw_thr, cw_waiting, cw_file, cw_io_failed>>
  /\ UNCHANGED cwOthers

\* After the loop: hand the data to the threads once half the buffer is full.
WriteTail ==
  /\ cw_prod.pc = "w_loop"
  /\ ~WriteLoopContinues(cw, cw_prod.size)
  /\ cw_prod' =
       IF ~cw.error /\ cw.producer_reserved_write_pos - cw.producer_reserved_pos
                         >= BufferSize \div 2
         THEN [cw_prod EXCEPT !.pc = "ur", !.wait_flag = "NOWAIT", !.ret_to = "w_ret"]
         ELSE [cw_prod EXCEPT !.pc = "w_ret"]
  /\ UNCHANGED <<cw, cw_thr, cw_waiting, cw_file, cw_io_failed>>
  /\ UNCHANGED cwOthers

\* write() returns.
WriteReturn ==
  /\ cw_prod.pc = "w_ret"
  /\ cw_prod' = [cw_prod EXCEPT !.pc = "ready"]
  /\ UNCHANGED <<cw, cw_thr, cw_waiting, cw_file, cw_io_failed>>
  /\ UNCHANGED cwOthers

\* ---- the producer: update_reservation() --------------------------------

\* uint64_t completed_pos = next_thread_pos;
\* for (...) completed_pos = min(completed_pos, thread_pos[i]);
RECURSIVE MinThreadPos(_, _, _)
MinThreadPos(c, i, acc) ==
  IF i >= num_threads THEN acc
  ELSE MinThreadPos(c, i + 1, Min(acc, c.thread_pos[i]))

NextThreadPosAlone(c) == c.next_thread_pos

completed_pos(c) == MinThreadPos(c, 0, c.next_thread_pos)

\* The loop of update_reservation without its test of write_error.
ReservationLoopIgnoresWriteError(c, wait_flag) ==
  IF c.error THEN [c |-> c, wait |-> FALSE]
  ELSE LET d == [c EXCEPT !.producer_reserved_upto_pos = completed_pos(c) + BufferSize]
       IN [c |-> d,
           wait |-> ~(d.producer_reserved_pos < d.producer_reserved_upto_pos
                      \/ wait_flag = "NOWAIT")]

\* One pass through update_reservation's loop "while (!error) ...", with the
\* mutex held: the fields afterwards, and whether the producer must wait.
ReservationLoop(c, wait_flag) ==
  IF c.error THEN [c |-> c, wait |-> FALSE]
  ELSE IF c.write_error THEN [c |-> [c EXCEPT !.error = TRUE], wait |-> FALSE]
  ELSE LET d == [c EXCEPT !.producer_reserved_upto_pos = completed_pos(c) + BufferSize]
       IN [c |-> d,
           wait |-> ~(d.producer_reserved_pos < d.producer_reserved_upto_pos
                      \/ wait_flag = "NOWAIT")]

\* update_reservation up to its first pthread_cond_wait or its return.
update_reservation ==
  /\ cw_prod.pc = "ur"
  /\ LET c == [cw EXCEPT !.next_thread_end_pos = cw.producer_reserved_write_pos,
                         !.producer_reserved_pos = cw.producer_reserved_write_pos]
         r == ReservationLoop(c, cw_prod.wait_flag)
     IN /\ cw' = r.c
        /\ cw_waiting' = IF r.wait THEN {Producer} ELSE {}  \* after the broadcast
        /\ cw_prod' = [cw_prod EXCEPT !.pc = IF r.wait THEN "ur_wait" ELSE cw_prod.ret_to]
  /\ UNCHANGED <<cw_thr, cw_file, cw_io_failed>>
  /\ UNCHANGED cwOthers

\* The producer returns from pthread_cond_wait and goes round the loop again.
ReservationWake ==
  /\ cw_prod.pc = "ur_wait"
  /\ Producer \notin cw_waiting
  /\ LET r == ReservationLoop(cw, cw_prod.wait_flag)
     IN /\ cw' = r.c
        /\ cw_waiting' = IF r.wait THEN cw_waiting \cup {Producer} ELSE cw_waiting
        /\ cw_prod' = [cw_prod EXCEPT !.pc = IF r.wait THEN "ur_wait" ELSE cw_prod.ret_to]
  /\ UNCHANGED <<cw_thr, cw_file, cw_io_failed>>
  /\ UNCHANGED cwOthers

\* ---- the producer: close() ---------------------------------------------

\* close() without its update_reservation(NOWAIT): what write() took in
\* since the last reservation is not handed to the threads.
CloseWithoutFlush ==
  /\ cw_prod.pc = "ready"
  /\ cw_prod' = IF cw.fd_open
                  THEN [cw_prod EXCEPT !.pc = "cl_closing", !.ret_to = "cl_closing"]
                  ELSE [cw_prod EXCEPT !.pc = "closed"]
  /\ UNCHANGED <<cw, cw_thr, cw_waiting, cw_file, cw_io_failed>>
  /\ UNCHANGED cwOthers

\* close() is called: it returns at once when the file is not open, else it
\* starts with update_reservation(NOWAIT).
Close ==
  /\ cw_prod.pc = "ready"
  /\ cw_prod' = IF cw.fd_open
                  THEN [cw_prod EXCEPT !.pc = "ur", !.wait_flag = "NOWAIT",
                                       !.ret_to = "cl_closing"]
                  ELSE [cw_prod EXCEPT !.pc = "closed"]
  /\ UNCHANGED <<cw, cw_thr, cw_waiting, cw_file, cw_io_failed>>
  /\ UNCHANGED cwOthers

\* closing = true; pthread_cond_broadcast(&cond);
CloseSignal ==
  /\ cw_prod.pc = "cl_closing"
  /\ cw' = [cw EXCEPT !.closing = TRUE]
  /\ cw_waiting' = {}
  /\ cw_prod' = [cw_prod EXCEPT !.pc = "cl_join"]
  /\ UNCHANGED <<cw_thr, cw_file, cw_io_failed>>
  /\ UNCHANGED cwOthers

\* pthread_join of every thread, then fd.close().
CloseJoin ==
  /\ cw_prod.pc = "cl_join"
  /\ \A i \in Threads : cw_thr[i].pc = "exited"
  /\ cw' = [cw EXCEPT !.fd_open = FALSE]
  /\ cw_prod' = [cw_prod EXCEPT !.pc = "closed"]
  /\ UNCHANGED <<cw_thr, cw_waiting, cw_file, cw_io_failed>>
  /\ UNCHANGED cwOthers

\* ---- compression_thread() ----------------------------------------------

\* The test at the head of the thread's loop: a block is there to be taken.
BlockAvailable(c) ==
  /\ ~c.write_error
  /\ c.next_thread_pos < c.next_thread_end_pos
  /\ (c.closing \/ c.next_thread_pos + block_size <= c.next_thread_end_pos)

\* if (closing && (write_error || next_thread_pos == next_thread_end_pos)) break;
ThreadMayExit(c) ==
  c.closing /\ (c.write_error \/ c.next_thread_pos = c.next_thread_end_pos)

\* A thread that never yields its turn to write.
NeverYieldsTurn(c, t) == FALSE

\* for (...) if (thread_pos[i] < thread_pos[thread_index]) other_thread_write_first = true;
other_thread_write_first(c, t) ==
  \E i \in Threads : c.thread_pos[i] < c.thread_pos[t]

\* The head of the thread's loop, with the mutex held: take the next block,
\* exit, or wait on the condition variable.
ThreadTop(t) ==
  /\ cw_thr[t].pc = "top"
  /\ t \notin cw_waiting
  /\ IF BlockAvailable(cw)
       THEN LET next == Min(cw.next_thread_end_pos, cw.next_thread_pos + block_size)
            IN /\ cw' = [cw EXCEPT !.thread_pos[t] = cw.next_thread_pos,
                                   !.next_thread_pos = next]
               /\ cw_thr' = [cw_thr EXCEPT ![t] =
                               [pc |-> "compress", ulen |-> next - cw.next_thread_pos]]
               /\ UNCHANGED cw_waiting
       ELSE IF ThreadMayExit(cw)
         THEN /\ cw_thr' = [cw_thr EXCEPT ![t].pc = "exited"]
              /\ UNCHANGED <<cw, cw_waiting>>
         ELSE /\ cw_waiting' = cw_waiting \cup {t}
              /\ UNCHANGED <<cw, cw_thr>>
  /\ UNCHANGED <<cw_prod, cw_file, cw_io_failed>>
  /\ UNCHANGED cwOthers

\* From "wait until we're the next thread that needs to write" on, with the
\* mutex held: wait for the turn, start the ::write, or (after an error) give
\* the block up.
TakeTurn(c, t) ==
  IF c.write_error
    THEN /\ cw' = [c EXCEPT !.thread_pos[t] = UINT64_MAX]
         /\ cw_waiting' = {}
         /\ cw_thr' = [cw_thr EXCEPT ![t].pc = "top"]
    ELSE IF other_thread_write_first(c, t)
      THEN /\ cw' = c
           /\ cw_waiting' = cw_waiting \cup {t}
           /\ cw_thr' = [cw_thr EXCEPT ![t].pc = "turn"]
      ELSE /\ cw' = c
           /\ UNCHANGED cw_waiting
           /\ cw_thr' = [cw_thr EXCEPT ![t].pc = "writing"]

\* do_compress returns; a result of 0 is an error.
CompressDone(t) ==
  /\ cw_thr[t].pc = "compress"
  /\ \E compressed_length \in {0, 1} :
       TakeTurn(IF compressed_length = 0 THEN [cw EXCEPT !.write_error = TRUE] ELSE cw, t)
  /\ UNCHANGED <<cw_prod, cw_file, cw_io_failed>>
  /\ UNCHANGED cwOthers

\* The thread returns from pthread_cond_wait in the wait for its turn.
TurnWake(t) ==
  /\ cw_thr[t].pc = "turn"
  /\ t \notin cw_waiting
  /\ TakeTurn(cw, t)
  /\ UNCHANGED <<cw_prod, cw_file, cw_io_failed>>
  /\ UNCHANGED cwOthers

\* ::write(fd, ...) returns and the block is given up, without the broadcast.
WriteDoneWithoutBroadcast(t) ==
  /\ cw_thr[t].pc = "writing"
  /\ \E ok \in BOOLEAN :
       IF ok THEN /\ cw_file' = Append(cw_file, [pos |-> cw.thread_pos[t],
                                                  len |-> cw_thr[t].ulen])
                  /\ UNCHANGED cw_io_failed
             ELSE /\ cw_io_failed' = TRUE
                  /\ UNCHANGED cw_file
  /\ cw' = [cw EXCEPT !.thread_pos[t] = UINT64_MAX]
  /\ UNCHANGED cw_waiting
  /\ cw_thr' = [cw_thr EXCEPT ![t].pc = "top"]
  /\ UNCHANGED cw_prod
  /\ UNCHANGED cwOthers

\* ::write(fd, ...) returns, its result unused; then
\* thread_pos[thread_index] = UINT64_MAX; pthread_cond_broadcast(&cond);
WriteDone(t) ==
  /\ cw_thr[t].pc = "writing"
  /\ \E ok \in BOOLEAN :
       IF ok THEN /\ cw_file' = Append(cw_file, [pos |-> cw.thread_pos[t],
                                                  len |-> cw_thr[t].ulen])
                  /\ UNCHANGED cw_io_failed
             ELSE /\ cw_io_failed' = TRUE
                  /\ UNCHANGED cw_file
  /\ cw' = [cw EXCEPT !.thread_pos[t] = UINT64_MAX]
  /\ cw_waiting' = {}
  /\ cw_thr' = [cw_thr EXCEPT ![t].pc = "top"]
  /\ UNCHANGED cw_prod
  /\ UNCHANGED cwOthers

ProducerStep ==
  \/ WriteLoop \/ WriteTail \/ WriteReturn
  \/ update_reservation \/ ReservationWake
  \/ CloseSignal \/ CloseJoin

ThreadStep(t) == ThreadTop(t) \/ CompressDone(t) \/ TurnWake(t) \/ WriteDone(t)

CwNext ==
  \/ Write \/ Close
  \/ ProducerStep
  \/ \E t \in Threads : ThreadStep(t)

(***************************************************************************)
(*                DEBUGGER SERVER: DIVERSIONS  (GdbServer.cc)              *)
(***************************************************************************)

\* Width in bits of uint32_t diversion_refcount, scaled down.
RefcountBits == 2
RefcountMod == 2 ^ RefcountBits

\* The most references the model takes on one breakpoint or watchpoint.
MaxBpRefs == 2

MemAddrs == {16}
MemVals == {0, 1}
RegNames == {"DREG_ORIG_EAX", "DREG_EAX"}

\* What a breakpoint or watchpoint request names: its kind and its address.
BpKeys == {"break", "watch"} \X {32}

NoBps == [k \in BpKeys |-> 0]

\* A tracee's memory and registers at the start.
FreshTracee == [mem |-> [a \in MemAddrs |-> 0], regs |-> [r \in RegNames |-> 0]]

\* What running a tracee may leave of its memory and registers: they are as
\* they were, or one byte or one register has changed.
RunOutcomes(t) ==
  {t} \cup {[t EXCEPT !.mem[a] = 1 - @] : a \in MemAddrs}
      \cup {[t EXCEPT !.regs[r] = 1 - @] : r \in RegNames}

NoRequest == [type |-> "DREQ_NONE"]

\* GdbServer and the sessions it serves, before the debugger's first request.
\*   running: timeline.is_running()
GdbStart(running) ==
  [state |-> "serving",             \* serving / aborted (assert) / detached
   running |-> running,
   diverting |-> FALSE,             \* divert() is active
   diversion_refcount |-> 0,
   replay |-> FreshTracee,          \* timeline.current_session()'s tracee
   diversion |-> FreshTracee,       \* diversion_session's tracee
   diversion_task |-> FALSE,        \* diversion_session->find_task(...) finds it
   breakpoints_applied |-> FALSE,   \* the timeline's are set in the replay tracee
   timeline_bps |-> NoBps,          \* the timeline's breakpoints and watchpoints
   diversion_bps |-> NoBps,         \* those of the diversion's address space
   req |-> NoRequest,               \* the request handled last
   by |-> {}]                       \* the sessions that acted on it

GdbInit == \E running \in BOOLEAN : gdb = GdbStart(running)

GdbIdle == gdb = GdbStart(FALSE)

\* ---- the timeline (ReplayTimeline is not among the sources) -------------

\* timeline.apply_breakpoints_and_watchpoints()
apply_breakpoints_and_watchpoints(g) == [g EXCEPT !.breakpoints_applied = TRUE]

\* timeline.add_breakpoint / add_watchpoint, which succeeded.
timeline_add(g, k) == [g EXCEPT !.timeline_bps[k] = @ + 1]

\* timeline.remove_breakpoint / remove_watchpoint
timeline_remove(g, k) ==
  [g EXCEPT !.timeline_bps[k] = IF @ > 0 THEN @ - 1 ELSE 0]

\* target->vm()->add_breakpoint(addr, BKPT_USER) / add_watchpoint in the diversion
diversion_add(g, k) == [g EXCEPT !.diversion_bps[k] = @ + 1]

\* target->vm()->remove_breakpoint(addr, BKPT_USER) / remove_watchpoint
diversion_remove(g, k) ==
  [g EXCEPT !.diversion_bps[k] = IF @ > 0 THEN @ - 1 ELSE 0]

\* timeline.remove_breakpoints_and_watchpoints(), of restart_session
remove_breakpoints_and_watchpoints(g) ==
  [g EXCEPT !.timeline_bps = NoBps, !.breakpoints_applied = FALSE]

\* replay.clone_diversion(): the diversion's tracee is a copy of the replay's,
\* with the breakpoints that are set in it.
clone_diversion(g) ==
  [g EXCEPT !.diversion = g.replay,
            !.diversion_task = g.running,
            !.diversion_bps = IF g.breakpoints_applied THEN g.timeline_bps ELSE NoBps]

\* ---- dispatch_debugger_request -----------------------------------------

\* The test of the session, always passed.
MayAlwaysWriteMemory(session) == TRUE

\* if (!session.is_diversion()) { ... reply_set_mem(false); return; }
MayWriteMemory(session) == session = "diversion"

\* The session's tracee after a write.
WriteMem(g, session, addr, val) ==
  IF session = "diversion" THEN [g EXCEPT !.diversion.mem[addr] = val]
                           ELSE [g EXCEPT !.replay.mem[addr] = val]

WriteReg(g, session, name, val) ==
  IF session = "diversion" THEN [g EXCEPT !.diversion.regs[name] = val]
                           ELSE [g EXCEPT !.replay.regs[name] = val]

\* A set that is not mirrored to the diversion.
SetBreakInTimelineOnly(g, session, r) ==
  IF ~r.ok THEN g ELSE timeline_add(g, r.key)

\* Mirror all breakpoint/watchpoint sets to the target if it is a diversion.
SetBreak(g, session, r) ==
  IF ~r.ok THEN g
  ELSE IF session = "diversion" THEN diversion_add(timeline_add(g, r.key), r.key)
  ELSE timeline_add(g, r.key)

RemoveBreak(g, session, r) ==
  IF session = "diversion" THEN diversion_remove(timeline_remove(g, r.key), r.key)
  ELSE timeline_remove(g, r.key)

\* dispatch_debugger_request(session, req, state) for the requests that get
\* past "if (!target) { notify_no_such_thread }".
dispatch_debugger_request(g, session, r) ==
  IF r.type = "DREQ_SET_MEM"
    THEN IF r.len = 0 THEN g
         ELSE IF ~MayWriteMemory(session) THEN g
         ELSE WriteMem(g, session, r.addr, r.val)
  ELSE IF r.type = "DREQ_SET_REG"
    THEN IF session # "diversion" THEN g
         ELSE IF r.defined THEN WriteReg(g, session, r.name, r.val)
         ELSE g
  ELSE IF r.type = "DREQ_SET_BREAK" THEN SetBreak(g, session, r)
  ELSE IF r.type = "DREQ_REMOVE_BREAK" THEN RemoveBreak(g, session, r)
  ELSE g      \* READ_SIGINFO, WRITE_SIGINFO, RR_CMD: a reply and nothing else

\* The requests dispatch_debugger_request handles, with their arguments.
\* has_target: the request's thread exists in the session.
DispatchRequests ==
  [type : {"DREQ_SET_MEM"}, has_target : {TRUE}, addr : MemAddrs,
   len : {0, 1}, val : MemVals]
  \cup [type : {"DREQ_SET_REG"}, has_target : {TRUE}, name : RegNames,
        defined : BOOLEAN, val : MemVals]
  \cup [type : {"DREQ_SET_BREAK"}, has_target : {TRUE}, key : BpKeys, ok : BOOLEAN]
  \cup [type : {"DREQ_REMOVE_BREAK"}, has_target : {TRUE}, key : BpKeys]
  \cup [type : {"DREQ_SET_MEM", "DREQ_SET_REG", "DREQ_SET_BREAK", "DREQ_REMOVE_BREAK"},
        has_target : {FALSE}]

Dispatch(g, session, r) ==
  IF r.has_target THEN dispatch_debugger_request(g, session, r) ELSE g

\* The request is noted as handled, with the sessions that acted on it: the
\* replay session, the diversion, or none.
HandledBy(who, g, r) == [g EXCEPT !.req = r, !.by = who]

\* The breakpoint counts stay within the model's bound.
WithinBpBound(r) ==
  (r.type = "DREQ_SET_BREAK" /\ r.has_target) => gdb.timeline_bps[r.key] < MaxBpRefs

\* ---- process_debugger_requests: the replay session is current ----------

Serving == gdb.state = "serving"

\* What running the replay does to its tracee and to the timeline.
ReplayRuns(g, tracee, applied) ==
  [g EXCEPT !.replay = tracee, !.breakpoints_applied = applied]

\* restart_session(req)
restart_session(g, tracee) ==
  [remove_breakpoints_and_watchpoints(g) EXCEPT !.replay = tracee]

\* kill_all_tasks(), at the end of divert()
EndDiversion(g) ==
  [g EXCEPT !.diverting = FALSE, !.diversion_refcount = 0,
            !.diversion = FreshTracee, !.diversion_task = FALSE,
            !.diversion_bps = NoBps]

\* divert() with uint32_t diversion_refcount = 0.
DivertUncounted(g) ==
  LET a == IF g.running THEN apply_breakpoints_and_watchpoints(g) ELSE g
  IN [clone_diversion(a) EXCEPT !.diverting = TRUE, !.diversion_refcount = 0]

\* req = divert(timeline.current_session()), up to the first get_request()
divert(g) ==
  LET a == IF g.running THEN apply_breakpoints_and_watchpoints(g) ELSE g
  IN [clone_diversion(a) EXCEPT !.diverting = TRUE, !.diversion_refcount = 1]

\* A request other than READ_SIGINFO, resume, restart and detach.
ReplayDispatch ==
  /\ Serving /\ ~gdb.diverting
  /\ \E r \in DispatchRequests \cup
               [type : {"DREQ_WRITE_SIGINFO", "DREQ_RR_CMD"}, has_target : {TRUE}] :
       /\ WithinBpBound(r)
       /\ r.has_target => gdb.running
       /\ gdb' = HandledBy({"replay"}, Dispatch(gdb, "replay", r), r)
  /\ UNCHANGED gdbOthers

\* READ_SIGINFO: the server starts a diversion.
ReplayReadSiginfo ==
  /\ Serving /\ ~gdb.diverting
  /\ gdb' = HandledBy({"replay"}, divert(gdb), [type |-> "DREQ_READ_SIGINFO"])
  /\ UNCHANGED gdbOthers

\* A resume request: the server's caller runs the replay.
ReplayResume ==
  /\ Serving /\ ~gdb.diverting
  /\ \E tracee \in RunOutcomes(gdb.replay), applied \in BOOLEAN :
       gdb' = HandledBy({"replay"}, ReplayRuns(gdb, IF gdb.running THEN tracee ELSE gdb.replay, applied),
                      [type |-> "DREQ_CONT", dir |-> "RUN_FORWARD"])
  /\ UNCHANGED gdbOthers

ReplayRestart ==
  /\ Serving /\ ~gdb.diverting
  /\ gdb' = HandledBy({"replay"}, restart_session(gdb, FreshTracee), [type |-> "DREQ_RESTART"])
  /\ UNCHANGED gdbOthers

ReplayDetach ==
  /\ Serving /\ ~gdb.diverting
  /\ gdb' = HandledBy({"replay"}, [gdb EXCEPT !.state = "detached"], [type |-> "DREQ_DETACH"])
  /\ UNCHANGED gdbOthers

\* ---- diverter_process_debugger_requests: a diversion is current --------

\* READ_SIGINFO: ++diversion_refcount
DivertReadSiginfo ==
  /\ Serving /\ gdb.diverting
  /\ gdb' = HandledBy({"diversion"}, [gdb EXCEPT !.diversion_refcount = (@ + 1) % RefcountMod],
                    [type |-> "DREQ_READ_SIGINFO"])
  /\ UNCHANGED gdbOthers

\* WRITE_SIGINFO: assert(diversion_refcount > 0); --diversion_refcount;
\* A build with assertions aborts on a count of zero, one without wraps.
DivertWriteSiginfo ==
  /\ Serving /\ gdb.diverting
  /\ \E asserts \in BOOLEAN :
       gdb' = HandledBy({"diversion"}, 
         IF gdb.diversion_refcount = 0 /\ asserts
           THEN [gdb EXCEPT !.state = "aborted"]
           ELSE [gdb EXCEPT !.diversion_refcount = (@ + RefcountMod - 1) % RefcountMod],
         [type |-> "DREQ_WRITE_SIGINFO"])
  /\ UNCHANGED gdbOthers

\* A request the diversion passes on to dispatch_debugger_request.
DivertDispatch ==
  /\ Serving /\ gdb.diverting
  /\ \E r \in DispatchRequests :
       /\ WithinBpBound(r)
       /\ r.has_target => gdb.diversion_task
       /\ gdb' = HandledBy({"diversion"}, Dispatch(gdb, "diversion", r), r)
  /\ UNCHANGED gdbOthers

\* A resume request while the count is positive: the diversion's tracee runs
\* (forward only; a backward request is answered with a stop at once), and the
\* diversion ends if its task is gone or exits.  When the task is gone the
\* request is replaced by DREQ_NONE before anything has been done with it.
DivertResume ==
  /\ Serving /\ gdb.diverting
  /\ gdb.diversion_refcount > 0
  /\ \E dir \in {"RUN_FORWARD", "RUN_BACKWARD"}, tracee \in RunOutcomes(gdb.diversion),
        exited \in BOOLEAN :
       gdb' = HandledBy(IF dir = "RUN_FORWARD" /\ ~gdb.diversion_task THEN {} ELSE {"diversion"}, 
         IF dir = "RUN_BACKWARD" THEN gdb
         ELSE IF ~gdb.diversion_task \/ exited THEN EndDiversion(gdb)
         ELSE [gdb EXCEPT !.diversion = tracee],
         [type |-> "DREQ_CONT", dir |-> dir])
  /\ UNCHANGED gdbOthers

\* A resume request while the count is zero: the diversion ends and the
\* request goes to the replay session.
DivertResumeEnds ==
  /\ Serving /\ gdb.diverting
  /\ gdb.diversion_refcount = 0
  /\ \E tracee \in RunOutcomes(gdb.replay), applied \in BOOLEAN :
       gdb' = HandledBy({"replay"}, ReplayRuns(EndDiversion(gdb),
                                 IF gdb.running THEN tracee ELSE gdb.replay, applied),
                      [type |-> "DREQ_CONT", dir |-> "RUN_FORWARD"])
  /\ UNCHANGED gdbOthers

\* RESTART, DETACH, RR_CMD: diversion_refcount = 0; return false; and the
\* request goes to the replay session.
DivertLeave ==
  /\ Serving /\ gdb.diverting
  /\ \E t \in {"DREQ_RESTART", "DREQ_DETACH", "DREQ_RR_CMD"} :
       LET e == EndDiversion(gdb)
       IN gdb' = HandledBy({"replay"}, 
            IF t = "DREQ_RESTART" THEN restart_session(e, FreshTracee)
            ELSE IF t = "DREQ_DETACH" THEN [e EXCEPT !.state = "detached"]
            ELSE e,
            [type |-> t])
  /\ UNCHANGED gdbOthers

GdbNext ==
  \/ ReplayDispatch \/ ReplayReadSiginfo \/ ReplayResume
  \/ ReplayRestart \/ ReplayDetach
  \/ DivertReadSiginfo \/ DivertWriteSiginfo \/ DivertDispatch
  \/ DivertResume \/ DivertResumeEnds \/ DivertLeave

(***************************************************************************)
(*                ADDRESS SPACE: BREAKPOINTS  (AddressSpace.h)             *)
(***************************************************************************)

\* static const uint8_t breakpoint_insn = 0xCC;
breakpoint_insn == 204

\* The most references of one kind the model takes on one breakpoint.
MaxRefs == 2

\* Code addresses of the tracee; the last one is not mapped.
AsAddrs == {64, 65, 66}
AsMapped == {64, 65}

BreakpointTypes == {"BKPT_INTERNAL", "BKPT_USER"}

NoBreakpoint == [set |-> FALSE]

\* No caller holds a reference.
NoneHeld == [a \in AsAddrs |-> [k \in BreakpointTypes |-> 0]]

\* The tracee's code before any breakpoint is set: an ordinary instruction,
\* an int3 of the program's own, and an address that cannot be read.
AsStart ==
  /\ as_mem = (64 :> 144) @@ (65 :> breakpoint_insn) @@ (66 :> 0)
  /\ as_breakpoints = [a \in AsAddrs |-> NoBreakpoint]
  /\ as_aborted = FALSE
  /\ as_log = [op |-> "none", addr |-> 64, which |-> "BKPT_USER",
               held |-> NoneHeld, misused |-> FALSE]

AsInit == AsStart

AsIdle == AsStart

\* Breakpoint() : internal_count(0), user_count(0) {}
Breakpoint(data) ==
  [set |-> TRUE, internal_count |-> 0, user_count |-> 0, overwritten_data |-> data]

\* void ref(BreakpointType which) { ++*counter(which); }
ref(b, which) ==
  IF which = "BKPT_USER" THEN [b EXCEPT !.user_count = @ + 1]
                         ELSE [b EXCEPT !.internal_count = @ + 1]

\* An unref that drops a reference of each kind.
UnrefBothKinds(b, which) ==
  [b EXCEPT !.user_count = @ - 1, !.internal_count = @ - 1]

\* An unref that takes every reference to be a user reference.
UnrefAlwaysUser(b, which) == [b EXCEPT !.user_count = @ - 1]

\* int unref(BreakpointType which): the breakpoint after --*counter(which);
\* it returns internal_count + user_count.
unref(b, which) ==
  IF which = "BKPT_USER" THEN [b EXCEPT !.user_count = @ - 1]
                         ELSE [b EXCEPT !.internal_count = @ - 1]

\* The assertions of unref(): one of them fails for this call.
UnrefAssertFails(b, which) ==
  \/ ~(b.internal_count > 0 \/ b.user_count > 0)
  \/ (IF which = "BKPT_USER" THEN b.user_count ELSE b.internal_count) < 0
  \/ ~(unref(b, which).internal_count >= 0 /\ unref(b, which).user_count >= 0)

\* A type() that does not look at the user references.
TypeIgnoresUser(b) == "BKPT_INTERNAL"

\* BreakpointType type() const
type(b) == IF b.user_count > 0 THEN "BKPT_USER" ELSE "BKPT_INTERNAL"

\* An address space: the tracee's bytes and the breakpoints set in them.
AsNow == [mem |-> as_mem, breakpoints |-> as_breakpoints]

\* bool add_breakpoint(addr, type): ensure a breakpoint of |type| is set at
\* |addr|.  A new breakpoint saves the byte it overwrites; it cannot be set
\* where the byte cannot be read.
add_breakpoint(s, addr, which) ==
  IF s.breakpoints[addr].set
    THEN [s EXCEPT !.breakpoints[addr] = ref(@, which)]
  ELSE IF addr \notin AsMapped THEN s
  ELSE [s EXCEPT !.breakpoints[addr] = ref(Breakpoint(s.mem[addr]), which),
                 !.mem[addr] = breakpoint_insn]

\* void remove_breakpoint(addr, type): remove a |type| reference to the
\* breakpoint at |addr|; if it was the last, the breakpoint is destroyed and
\* the byte it overwrote is put back.
remove_breakpoint(s, addr, which) ==
  IF ~s.breakpoints[addr].set THEN s
  ELSE LET b == unref(s.breakpoints[addr], which)
       IN IF b.internal_count + b.user_count > 0
            THEN [s EXCEPT !.breakpoints[addr] = b]
            ELSE [s EXCEPT !.breakpoints[addr] = NoBreakpoint,
                           !.mem[addr] = b.overwritten_data]

\* The callers' references after a call of add_breakpoint that returned
\* |added|; they are followed as long as every remove_breakpoint was of a
\* reference its caller held.
LogAdd(addr, which, added) ==
  [op |-> "add", addr |-> addr, which |-> which,
   held |-> IF added /\ ~as_log.misused
              THEN [as_log.held EXCEPT ![addr][which] = @ + 1] ELSE as_log.held,
   misused |-> as_log.misused]

LogRemove(addr, which) ==
  LET matched == as_log.held[addr][which] > 0
  IN [op |-> "remove", addr |-> addr, which |-> which,
      held |-> IF as_log.misused \/ ~matched THEN NoneHeld
               ELSE [as_log.held EXCEPT ![addr][which] = @ - 1],
      misused |-> as_log.misused \/ ~matched]

\* A client sets a breakpoint.
AddBreakpoint ==
  /\ ~as_aborted
  /\ \E addr \in AsAddrs, which \in BreakpointTypes :
       /\ as_breakpoints[addr].set =>
            (IF which = "BKPT_USER" THEN as_breakpoints[addr].user_count
                                    ELSE as_breakpoints[addr].internal_count) < MaxRefs
       /\ LET s == add_breakpoint(AsNow, addr, which)
          IN /\ as_mem' = s.mem
             /\ as_breakpoints' = s.breakpoints
             /\ as_log' = LogAdd(addr, which, s.breakpoints[addr].set)
  /\ UNCHANGED as_aborted
  /\ UNCHANGED asOthers

\* A client removes a breakpoint.  When an assertion of unref() fails, a build
\* with assertions aborts and one without carries on.
RemoveBreakpoint ==
  /\ ~as_aborted
  /\ \E addr \in AsAddrs, which \in BreakpointTypes, asserts \in BOOLEAN :
       /\ as_log' = LogRemove(addr, which)
       /\ IF as_breakpoints[addr].set /\ UnrefAssertFails(as_breakpoints[addr], which)
               /\ asserts
            THEN /\ as_aborted' = TRUE
                 /\ UNCHANGED <<as_mem, as_breakpoints>>
            ELSE LET s == remove_breakpoint(AsNow, addr, which)
                 IN /\ as_mem' = s.mem
                    /\ as_breakpoints' = s.breakpoints
                    /\ UNCHANGED as_aborted
  /\ UNCHANGED asOthers

AsNext == AddBreakpoint \/ RemoveBreakpoint

(***************************************************************************)
(*             ADDRESS SPACE: THE MEMORY MAP  (AddressSpace.h)             *)
(***************************************************************************)

\* The pages of the address space are numbered 0 .. PageCount - 1; a range
\* [start, end) is a pair of page numbers.
PageCount == 4

\* PROT_READ and PROT_READ | PROT_WRITE.
Prots == {1, 3}

Max(a, b) == IF a > b THEN a ELSE b

MemoryRange(start, end) == [start |-> start, end |-> end]

\* MemoryRange::intersects
intersects(a, b) == Max(a.start, b.start) < Min(a.end, b.end)

\* A comparator that orders ranges by their start alone.
CompareStartsOnly(a, b) == a.start < b.start

\* struct MappingComparator: overlapping ranges are equivalent.
MappingComparator(a, b) ==
  IF intersects(a, b) THEN FALSE ELSE a.start < b.start

\* std::map: the keys |key| is equivalent to.
Equivalent(mem, key) ==
  {e \in mem : ~MappingComparator(e, key) /\ ~MappingComparator(key, e)}

\* std::map::insert: nothing is inserted when an equivalent key is there.
Insert(mem, m) == IF Equivalent(mem, m) # {} THEN mem ELSE mem \cup {m}

\* std::map::lower_bound: the first entry that is not less than |key|, as a
\* set of at most one entry (empty for end()).
lower_bound(mem, key) ==
  LET notLess == {e \in mem : ~MappingComparator(e, key)}
  IN {e \in notLess : \A c \in notLess \ {e} : ~MappingComparator(c, e)}

\* bool has_mapping(addr)
has_mapping(mem, addr) == \E e \in mem : e.start <= addr /\ addr < e.end

\* const Mapping& mapping_of(addr)
mapping_of(mem, addr) == CHOOSE e \in mem : e.start <= addr /\ addr < e.end

Range(e) == MemoryRange(e.start, e.end)

Mapping(start, end, prot) == [start |-> start, end |-> end, prot |-> prot]

\* unmap_internal: every mapping that overlaps [addr, addr + num) is erased,
\* and what of it lies below and above the range is mapped again.
unmap_internal(mem, addr, num) ==
  LET rem == MemoryRange(addr, addr + num)
      hit == {e \in mem : intersects(Range(e), rem)}
      under == {Mapping(e.start, rem.start, e.prot) : e \in {h \in hit : h.start < rem.start}}
      over == {Mapping(rem.end, e.end, e.prot) : e \in {h \in hit : h.end > rem.end}}
  IN (mem \ hit) \cup under \cup over

\* coalesce_around: merge the mappings adjacent to |m| that have the same
\* attributes.
RECURSIVE coalesce_around(_, _)
coalesce_around(mem, m) ==
  IF m \notin mem THEN mem
  ELSE LET left == {e \in mem : e.end = m.start /\ e.prot = m.prot}
           right == {e \in mem : e.start = m.end /\ e.prot = m.prot}
       IN IF left # {}
            THEN LET l == CHOOSE e \in left : TRUE
                     merged == Mapping(l.start, m.end, m.prot)
                 IN coalesce_around(Insert(mem \ {l, m}, merged), merged)
          ELSE IF right # {}
            THEN LET r == CHOOSE e \in right : TRUE
                     merged == Mapping(m.start, r.end, m.prot)
                 IN coalesce_around(Insert(mem \ {r, m}, merged), merged)
          ELSE mem

\* map_and_coalesce
map_and_coalesce(mem, m) == coalesce_around(Insert(mem, m), m)

\* map(addr, num_bytes, prot, ...)
map(mem, addr, num, prot) ==
  map_and_coalesce(unmap_internal(mem, addr, num), Mapping(addr, addr + num, prot))

\* unmap(addr, num_bytes)
unmap(mem, addr, num) == unmap_internal(mem, addr, num)

\* protect: the part of each mapping inside [addr, addr + num) gets |prot|,
\* the parts below and above keep theirs.
RECURSIVE MapEach(_, _)
MapEach(mem, pieces) ==
  IF pieces = {} THEN mem
  ELSE LET p == CHOOSE x \in pieces : \A y \in pieces : x.start <= y.start
       IN MapEach(map_and_coalesce(mem, p), pieces \ {p})

protect(mem, addr, num, prot) ==
  LET rem == MemoryRange(addr, addr + num)
      hit == {e \in mem : intersects(Range(e), rem)}
      inside == {Mapping(Max(e.start, rem.start), Min(e.end, rem.end), prot) : e \in hit}
  IN MapEach(unmap_internal(mem, addr, num), inside)

\* remap: move the mapping [old_addr, old_addr + old_num) to
\* [new_addr, new_addr + new_num), preserving metadata.
remap(mem, old_addr, old_num, new_addr, new_num) ==
  LET m == mapping_of(mem, old_addr)
  IN map_and_coalesce(unmap_internal(mem, old_addr, old_num),
                      Mapping(new_addr, new_addr + new_num, m.prot))

\* ---- Maps::iterator ----------------------------------------------------

\* MemoryMap::const_iterator to_it() const
to_it(mem, it) ==
  IF it.at_end THEN {} ELSE lower_bound(mem, MemoryRange(it.ptr, it.ptr))

\* An increment that goes to the start of the current mapping.
IncrementToStart(mem, it) ==
  [it EXCEPT !.ptr = (CHOOSE e \in to_it(mem, it) : TRUE).start]

\* const iterator& operator++(): ptr = to_it()->second.map.end();
Increment(mem, it) ==
  [it EXCEPT !.ptr = (CHOOSE e \in to_it(mem, it) : TRUE).end]

\* iterator begin() const { return iterator(outer.mem, start); }
begin == [ptr |-> 0, at_end |-> FALSE]

\* iterator end() const { return iterator(outer.mem); }
end == [ptr |-> 0, at_end |-> TRUE]

Keys(mem) == {Range(e) : e \in mem}

\* touched: a mapping was changed, none added or removed, during the loop.
NoWalk == [pc |-> "idle", it |-> end, yielded |-> <<>>, touched |-> FALSE]

MmStart ==
  /\ mm_mem = {}
  /\ mm_walk = NoWalk

MmInit == MmStart

MmIdle == MmStart

\* A change of the map.  A loop over maps() is only followed while no entry
\* is added or removed; the iterator promises nothing after that.  What a
\* finished loop saw is forgotten at the next change.
Mutated(mem) ==
  /\ mm_mem' = mem
  /\ mm_walk' = IF mem = mm_mem THEN mm_walk
                ELSE IF mm_walk.pc \notin {"test", "body"} THEN NoWalk
                ELSE IF Keys(mem) # Keys(mm_mem) THEN [NoWalk EXCEPT !.pc = "spoiled"]
                ELSE [mm_walk EXCEPT !.touched = TRUE]

MmMap ==
  /\ \E addr \in 0 .. PageCount - 1, prot \in Prots :
       \E num \in 1 .. PageCount - addr : Mutated(map(mm_mem, addr, num, prot))
  /\ UNCHANGED mmOthers

MmUnmap ==
  /\ \E addr \in 0 .. PageCount - 1 :
       \E num \in 1 .. PageCount - addr : Mutated(unmap(mm_mem, addr, num))
  /\ UNCHANGED mmOthers

MmProtect ==
  /\ \E addr \in 0 .. PageCount - 1, prot \in Prots :
       \E num \in 1 .. PageCount - addr : Mutated(protect(mm_mem, addr, num, prot))
  /\ UNCHANGED mmOthers

\* mremap of a whole mapping, to a new size in place or to another address.
MmRemap ==
  /\ \E m \in mm_mem, new_addr \in 0 .. PageCount - 1 :
       \E new_num \in 1 .. PageCount - new_addr :
         Mutated(remap(mm_mem, m.start, m.end - m.start, new_addr, new_num))
  /\ UNCHANGED mmOthers

\* for (auto it = maps().begin(); ...
WalkBegin ==
  /\ mm_walk.pc \in {"idle", "done", "spoiled"}
  /\ mm_walk' = [pc |-> "test", it |-> begin, yielded |-> <<>>, touched |-> FALSE]
  /\ UNCHANGED mm_mem
  /\ UNCHANGED mmOthers

\* ... it != maps().end(); ...: the loop ends, or its body sees *it.
WalkTest ==
  /\ mm_walk.pc = "test"
  /\ mm_walk' =
       IF to_it(mm_mem, mm_walk.it) = to_it(mm_mem, end)
         THEN [mm_walk EXCEPT !.pc = "done"]
         ELSE [mm_walk EXCEPT !.pc = "body",
                 !.yielded = Append(@, Range(CHOOSE e \in to_it(mm_mem, mm_walk.it) : TRUE))]
  /\ UNCHANGED mm_mem
  /\ UNCHANGED mmOthers

\* ... ++it)
WalkIncrement ==
  /\ mm_walk.pc = "body"
  /\ mm_walk' = [mm_walk EXCEPT !.pc = "test", !.it = Increment(mm_mem, mm_walk.it)]
  /\ UNCHANGED mm_mem
  /\ UNCHANGED mmOthers

MmNext ==
  \/ MmMap \/ MmUnmap \/ MmProtect \/ MmRemap
  \/ WalkBegin \/ WalkTest \/ WalkIncrement

(***************************************************************************)
(*  TRACE FRAMES (TraceStream.cc, TraceStream.h, Event.h)                  *)
(*                                                                         *)
(*  The events substream is the sequence of values TraceWriter::write_frame*)
(*  puts into it; TraceReader::read_frame takes them out again, deciding   *)
(*  from the decoded event which optional blocks follow.                   *)
(***************************************************************************)

MaxFrames == 3      \* frames recorded into one trace
MaxRewinds == 1     \* times the reader is rewound

SIGILL == 4
SIGTRAP == 5
SIGBUS == 7
SIGFPE == 8
SIGINT == 2
SIGSEGV == 11
DET_SIGNAL_BIT == 128
DataBits == 24

\* ExtraRegisters: a format and the raw bytes.
NoExtraRegisters == [format |-> "NONE", data |-> <<>>]

ExtraRegisterValues == {NoExtraRegisters, [format |-> "XSAVE", data |-> <<15>>]}

NoRegisters == 0
RegisterValues == {9}
NoPerfValues == 0
PerfValues == {3}

\* An event as the recorder holds it.  number is the syscall number of a
\* syscall event; signo, deterministic and si_addr are the siginfo of a signal
\* event.
EventOf(kind, entry, info, number, signo, det, addr) ==
  [type |-> kind, is_syscall_entry |-> entry, has_exec_info |-> info,
   arch |-> "x86_64", number |-> number, signo |-> signo,
   deterministic |-> det, si_addr |-> addr]

RecordedEvents ==
  { EventOf("EV_SCHED", FALSE, FALSE, 0, 0, FALSE, 0),
    EventOf("EV_SYSCALL", TRUE, TRUE, 3, 0, FALSE, 0),
    EventOf("EV_SYSCALL", FALSE, TRUE, 3, 0, FALSE, 0),
    EventOf("EV_SIGNAL", FALSE, TRUE, 0, SIGSEGV, TRUE, 4096),
    EventOf("EV_SIGNAL", FALSE, TRUE, 0, SIGINT, FALSE, 0),
    \* si_addr shares its bytes with si_pid and si_uid: a signal sent by
    \* kill() carries the sender there.
    EventOf("EV_SIGNAL", FALSE, TRUE, 0, SIGINT, FALSE, 1234) }

is_signal_event(ev) == ev.type \in {"EV_SIGNAL", "EV_SIGNAL_DELIVERY", "EV_SIGNAL_HANDLER"}

is_syscall_event(ev) == ev.type \in {"EV_SYSCALL", "EV_SYSCALL_INTERRUPTION"}

\* Event::encode(): the 32-bit encoding; the payload is the syscall number or
\* the signal number with DET_SIGNAL_BIT.
encode(ev) ==
  [type |-> ev.type, is_syscall_entry |-> ev.is_syscall_entry,
   has_exec_info |-> ev.has_exec_info, arch_ |-> ev.arch,
   data |-> (IF is_signal_event(ev)
               THEN ev.signo + (IF ev.deterministic THEN DET_SIGNAL_BIT ELSE 0)
               ELSE IF is_syscall_event(ev) THEN ev.number ELSE 0)
            % (2 ^ DataBits)]

\* Event::Event(EncodedEvent): a signal event is rebuilt by
\* SignalEvent(signo, deterministic, arch), whose siginfo is zero but for
\* si_signo.
Decode(e) ==
  LET sig == e.type \in {"EV_SIGNAL", "EV_SIGNAL_DELIVERY", "EV_SIGNAL_HANDLER"}
      sys == e.type \in {"EV_SYSCALL", "EV_SYSCALL_INTERRUPTION"}
  IN  [type |-> e.type, is_syscall_entry |-> e.is_syscall_entry,
       has_exec_info |-> e.has_exec_info, arch |-> e.arch_,
       number |-> IF sys THEN e.data ELSE 0,
       signo |-> IF sig THEN e.data % DET_SIGNAL_BIT ELSE 0,
       deterministic |-> sig /\ (e.data \div DET_SIGNAL_BIT) % 2 = 1,
       si_addr |-> 0]

FaultSignals == {SIGILL, SIGFPE, SIGSEGV, SIGBUS, SIGTRAP}

\* SignalEvent::signal_data()
signal_data(ev) == IF ev.signo \in FaultSignals THEN ev.si_addr ELSE 0

\* SignalEvent::set_signal_data()
set_signal_data(ev, data) ==
  IF ev.signo \in FaultSignals THEN [ev EXCEPT !.si_addr = data] ELSE ev

TickTimeStalls(t) == t

\* TraceStream::tick_time()
tick_time(t) == t + 1

\* A trace frame.  The register block is only set for an event that has exec
\* info.
TraceFrame(time, tid, ev, ticks, monotonic, regs, perf, extra) ==
  [time |-> time, tid |-> tid, ev |-> ev, ticks |-> ticks,
   monotonic_sec |-> monotonic, recorded_regs |-> regs, extra_perf |-> perf,
   recorded_extra_regs |-> extra]

BasicInfo(frame) ==
  [global_time |-> frame.time, tid_ |-> frame.tid, ev |-> encode(frame.ev),
   ticks_ |-> frame.ticks, monotonic_sec |-> frame.monotonic_sec]

\* What write_frame appends to the events substream for a frame.
FrameItems(frame) ==
  <<BasicInfo(frame)>>
  \o (IF frame.ev.has_exec_info
        THEN <<frame.recorded_regs, frame.extra_perf,
               frame.recorded_extra_regs.format,
               Len(frame.recorded_extra_regs.data)>>
             \o (IF Len(frame.recorded_extra_regs.data) > 0
                   THEN <<frame.recorded_extra_regs.data>> ELSE <<>>)
        ELSE <<>>)
  \o (IF is_signal_event(frame.ev) THEN <<signal_data(frame.ev)>> ELSE <<>>)

ReadExtraRegistersAsNone(extra_reg_format, extra_reg_bytes, data) == NoExtraRegisters

\* read_frame's extra-register block: the bytes with their format, or empty
\* registers when no bytes were stored.
ReadExtraRegisters(extra_reg_format, extra_reg_bytes, data) ==
  IF extra_reg_bytes > 0
    THEN [format |-> extra_reg_format, data |-> data]
    ELSE NoExtraRegisters

\* The frame read_frame builds from the substream at position pos, and the
\* position after it.
ParseFrame(events, pos) ==
  LET basic_info == events[pos]
      ev == Decode(basic_info.ev)
      hasInfo == ev.has_exec_info
      extra_reg_format == events[pos + 3]
      extra_reg_bytes == events[pos + 4]
      afterRegs == IF ~hasInfo THEN pos + 1
                   ELSE IF extra_reg_bytes > 0 THEN pos + 6 ELSE pos + 5
      extra == IF hasInfo
                 THEN ReadExtraRegisters(extra_reg_format, extra_reg_bytes,
                        IF extra_reg_bytes > 0 THEN events[pos + 5] ELSE <<>>)
                 ELSE NoExtraRegisters
      formatOk == ~hasInfo \/ extra_reg_bytes > 0 \/ extra_reg_format = "NONE"
      isSig == is_signal_event(ev)
      event == IF isSig THEN set_signal_data(ev, events[afterRegs]) ELSE ev
  IN  [frame |-> TraceFrame(basic_info.global_time, basic_info.tid_, event,
                            basic_info.ticks_, basic_info.monotonic_sec,
                            IF hasInfo THEN events[pos + 1] ELSE NoRegisters,
                            IF hasInfo THEN events[pos + 2] ELSE NoPerfValues,
                            extra),
       next |-> IF isSig THEN afterRegs + 1 ELSE afterRegs,
       formatOk |-> formatOk]

\* TraceReader::at_end()
at_end == ts_reader.pos > Len(ts_events)

TsStart ==
  /\ ts_events = <<>>
  /\ ts_writer = [global_time |-> 1, open |-> TRUE, written |-> <<>>]
  /\ ts_reader = [pos |-> 1, global_time |-> 0, frames |-> <<>>,
                  rewinds |-> 0, aborted |-> FALSE]

TsInit == TsStart

TsIdle == TsStart

\* The frame the recorder makes of an event: stamped with the writer's current
\* time, with the register block of an event that has exec info.
RecordedFrame(ev, regs, perf, extra) ==
  TraceFrame(ts_writer.global_time, 7, ev, 5, 2,
             IF ev.has_exec_info THEN regs ELSE NoRegisters,
             IF ev.has_exec_info THEN perf ELSE NoPerfValues,
             IF ev.has_exec_info THEN extra ELSE NoExtraRegisters)

\* TraceWriter::write_frame: appends the frame and ticks the time.
WriteFrame ==
  /\ ts_writer.open
  /\ Len(ts_writer.written) < MaxFrames
  /\ \E ev \in RecordedEvents, regs \in RegisterValues, perf \in PerfValues,
        extra \in ExtraRegisterValues :
       LET frame == RecordedFrame(ev, regs, perf, extra)
       IN  /\ ts_events' = ts_events \o FrameItems(frame)
           /\ ts_writer' = [ts_writer EXCEPT
                              !.global_time = tick_time(@),
                              !.written = Append(@, frame)]
  /\ UNCHANGED ts_reader
  /\ UNCHANGED tsOthers

\* The recording ends; the trace can be opened for reading from now on.
CloseTrace ==
  /\ ts_writer.open
  /\ ts_writer' = [ts_writer EXCEPT !.open = FALSE]
  /\ UNCHANGED <<ts_events, ts_reader>>
  /\ UNCHANGED tsOthers

\* TraceReader::read_frame.  Its two assertions end the process when they
\* fail in a build that has them, and do nothing in a build without them.
ReadFrame ==
  /\ ~ts_writer.open
  /\ ~ts_reader.aborted
  /\ ~at_end
  /\ LET parsed == ParseFrame(ts_events, ts_reader.pos)
         time == tick_time(ts_reader.global_time)
         read == [ts_reader EXCEPT !.pos = parsed.next,
                                   !.global_time = time,
                                   !.frames = Append(@, parsed.frame)]
     IN  \/ /\ parsed.formatOk /\ time = parsed.frame.time
            /\ ts_reader' = read
         \/ /\ ~(parsed.formatOk /\ time = parsed.frame.time)
            /\ \/ ts_reader' = read
               \/ ts_reader' = [ts_reader EXCEPT !.aborted = TRUE]
  /\ UNCHANGED <<ts_events, ts_writer>>
  /\ UNCHANGED tsOthers

\* TraceReader::rewind
Rewind ==
  /\ ~ts_writer.open
  /\ ~ts_reader.aborted
  /\ ts_reader.rewinds < MaxRewinds
  /\ ts_reader' = [ts_reader EXCEPT !.pos = 1, !.global_time = 0,
                                    !.frames = <<>>, !.rewinds = @ + 1]
  /\ UNCHANGED <<ts_events, ts_writer>>
  /\ UNCHANGED tsOthers

TsNext == WriteFrame \/ CloseTrace \/ ReadFrame \/ Rewind

(***************************************************************************)
(*  SHUTDOWN (Session.cc: Session::kill_all_tasks)                         *)
(***************************************************************************)

NumTasks == 3        \* tasks in the session
MaxFailures == 2     \* failed detaches counted (the count saturates there)

Tids == 1..NumTasks

\* Tasks 1 and 2 are threads of one task group; every other task is alone.
real_tgid(t) == IF t <= 2 THEN 1 ELSE t

privileged_traced_syscall_ip == 200
SYS_exit == 60

StartRegs == [ip |-> 100, syscallno |-> 7, arg1 |-> 9]

ExitRegsKeepIp(r) == [r EXCEPT !.syscallno = SYS_exit, !.arg1 = 0]

\* The registers kill_all_tasks gives a task before detaching: an exit(0)
\* syscall at the privileged traced-syscall instruction.
ExitRegs(r) ==
  [r EXCEPT !.ip = privileged_traced_syscall_ip, !.syscallno = SYS_exit, !.arg1 = 0]

Task(stopped, exited, unstable) ==
  [is_stopped |-> stopped, stable_exit |-> exited, unstable |-> unstable,
   regs |-> StartRegs, detached |-> FALSE, killed |-> FALSE,
   unstable_at_start |-> unstable]

KsStartCtl == [pc |-> "detach_loop", t |-> 1, failures |-> 0, result |-> "none"]

KsInit ==
  /\ ks_task_map = Tids
  /\ ks_ctl = KsStartCtl
  /\ \E stopped \in [Tids -> BOOLEAN], exited \in [Tids -> BOOLEAN],
        unstable \in [{real_tgid(t) : t \in Tids} -> BOOLEAN] :
       ks_tasks = [t \in Tids |->
                     Task(stopped[t], exited[t], unstable[real_tgid(t)])]

KsIdle ==
  /\ ks_task_map = Tids
  /\ ks_ctl = KsStartCtl
  /\ ks_tasks = [t \in Tids |-> Task(TRUE, FALSE, FALSE)]

\* TaskGroup::destabilize: every task of the group is marked unstable.
destabilize(tasks, tgid) ==
  [t \in Tids |-> IF real_tgid(t) = tgid /\ t \in ks_task_map
                    THEN [tasks[t] EXCEPT !.unstable = TRUE] ELSE tasks[t]]

\* task_map.rbegin(): the task with the greatest tid.
rbegin == CHOOSE t \in ks_task_map : \A u \in ks_task_map : u <= t

\* The first loop detaches a task that is stopped and has not exited stably.
DetachesTask(t) == t.is_stopped /\ ~t.stable_exit

\* The second loop kills a task that has not exited stably and is not marked
\* unstable.
KillsTask(t) == ~t.stable_exit /\ ~t.unstable

\* One turn of the first loop, up to the detach: the task is skipped, or its
\* registers are set for exit(0).
DetachLoopStep ==
  /\ ks_ctl.pc = "detach_loop"
  /\ IF ks_ctl.t \notin Tids
       THEN /\ ks_ctl' = [ks_ctl EXCEPT !.pc = "kill_loop"]
            /\ UNCHANGED ks_tasks
       ELSE IF DetachesTask(ks_tasks[ks_ctl.t])
         THEN /\ ks_tasks' = [ks_tasks EXCEPT ![ks_ctl.t].regs = ExitRegs(@)]
              /\ ks_ctl' = [ks_ctl EXCEPT !.pc = "detach", !.failures = 0]
         ELSE /\ ks_ctl' = [ks_ctl EXCEPT !.t = @ + 1]
              /\ UNCHANGED ks_tasks
  /\ UNCHANGED ks_task_map
  /\ UNCHANGED ksOthers

\* t->fallible_ptrace(PTRACE_DETACH): it succeeds, or fails with ESRCH or with
\* another error.
PtraceDetach ==
  /\ ks_ctl.pc = "detach"
  /\ \E result \in {"ok", "ESRCH", "EINTR"} :
       ks_ctl' = [ks_ctl EXCEPT !.pc = "detach_result", !.result = result]
  /\ UNCHANGED <<ks_tasks, ks_task_map>>
  /\ UNCHANGED ksOthers

\* The rest of a turn of the do-while loop: the ASSERT ends rr on an error
\* other than ESRCH, and the loop goes round again while the detach failed.
DetachResult ==
  /\ ks_ctl.pc = "detach_result"
  /\ CASE ks_ctl.result = "ok" ->
            /\ ks_tasks' = [ks_tasks EXCEPT ![ks_ctl.t].detached = TRUE]
            /\ ks_ctl' = [ks_ctl EXCEPT !.pc = "detach_loop", !.t = @ + 1,
                                        !.result = "none"]
       [] ks_ctl.result = "ESRCH" ->
            /\ ks_ctl' = [ks_ctl EXCEPT
                            !.pc = "detach", !.result = "none",
                            !.failures = IF @ < MaxFailures THEN @ + 1 ELSE @]
            /\ UNCHANGED ks_tasks
       [] OTHER ->
            /\ ks_ctl' = [ks_ctl EXCEPT !.pc = "aborted"]
            /\ UNCHANGED ks_tasks
  /\ UNCHANGED ks_task_map
  /\ UNCHANGED ksOthers

\* One turn of the second loop: the last task of the map is killed, and its
\* task group destabilized, unless it exited stably or is already unstable;
\* then it is deleted.
KillLoopStep ==
  /\ ks_ctl.pc = "kill_loop"
  /\ IF ks_task_map = {}
       THEN /\ ks_ctl' = [ks_ctl EXCEPT !.pc = "done"]
            /\ UNCHANGED <<ks_tasks, ks_task_map>>
       ELSE LET t == rbegin
            IN  /\ ks_tasks' =
                     IF KillsTask(ks_tasks[t])
                       THEN destabilize([ks_tasks EXCEPT ![t].killed = TRUE],
                                        real_tgid(t))
                       ELSE ks_tasks
                /\ ks_task_map' = ks_task_map \ {t}
                /\ UNCHANGED ks_ctl
  /\ UNCHANGED ksOthers

KsNext == DetachLoopStep \/ PtraceDetach \/ DetachResult \/ KillLoopStep

(***************************************************************************)
(*  REMOTE SYSCALLS (AutoRemoteSyscalls.cc)                                *)
(*                                                                         *)
(*  An AutoRemoteSyscalls scope saves the tracee's registers, runs         *)
(*  syscalls in the tracee and puts the registers back when it ends.       *)
(*  AutoRestoreMem borrows bytes below the stack pointer for the length of *)
(*  a nested scope.                                                        *)
(***************************************************************************)

MaxSaves == 2       \* AutoRestoreMem objects alive at once
MaxScratch == 2     \* bytes one AutoRestoreMem borrows
MaxSyscalls == 2    \* remote syscalls in one scope
Headroom == 2       \* the room maybe_fix_stack_pointer wants below sp

traced_syscall_ip == 300
syscall_instruction_length == 2

\* The tracee's mappings: a stack, and an area that is not usable as one.
ArMappings ==
  { [start |-> 1, end |-> 5, usable |-> TRUE],
    [start |-> 5, end |-> 9, usable |-> FALSE] }

ArAddrs == UNION {m.start .. m.end - 1 : m \in ArMappings}

\* Task::read_bytes_helper
read_bytes_helper(mem, addr, len) == [i \in 1..len |-> mem[addr + i - 1]]

\* Task::write_bytes_helper
write_bytes_helper(mem, addr, bytes) ==
  [a \in DOMAIN mem |->
     IF addr <= a /\ a < addr + Len(bytes) THEN bytes[a - addr + 1] ELSE mem[a]]

\* The bytes of a parameter of len bytes.
ParamBytes(len) == [i \in 1..len |-> 7]

AnyAreaUsable(km) == TRUE

\* is_usable_area: readable, writable and private.
is_usable_area(km) == km.usable

\* AutoRemoteSyscalls::maybe_fix_stack_pointer: the initial registers, with
\* the stack pointer moved to the end of the first usable area when the
\* tracee's own is not in one with room below it.
maybe_fix_stack_pointer(initial_regs, sp, done_initial_exec) ==
  LET last_stack_byte == sp - 1
      plenty == \E m \in ArMappings :
                  /\ m.start <= last_stack_byte /\ last_stack_byte < m.end
                  /\ is_usable_area(m) /\ m.start + Headroom <= sp
      usable == {m \in ArMappings : is_usable_area(m)}
      found_stack == CHOOSE m \in usable : \A o \in usable : m.start <= o.start
  IN  IF ~done_initial_exec \/ plenty
        THEN initial_regs
        ELSE [initial_regs EXCEPT !.sp = found_stack.end]

\* AutoRemoteSyscalls::AutoRemoteSyscalls
Construct(regs, enable_mem_params, done_initial_exec) ==
  LET atSyscall == [regs EXCEPT !.ip = traced_syscall_ip]
  IN  [state |-> "open",
       mem_params |-> enable_mem_params,
       done_initial_exec |-> done_initial_exec,
       initial_regs |->
         IF enable_mem_params
           THEN maybe_fix_stack_pointer(atSyscall, regs.sp, done_initial_exec)
           ELSE [atSyscall EXCEPT !.sp = 0],
       initial_ip |-> regs.ip,
       initial_sp |-> regs.sp]

RestoreKeepsIp(initial_regs, initial_ip, initial_sp) ==
  [initial_regs EXCEPT !.sp = initial_sp]

\* AutoRemoteSyscalls::restore_state_to: the registers it gives the task.
restore_state_to(initial_regs, initial_ip, initial_sp) ==
  [initial_regs EXCEPT !.ip = initial_ip, !.sp = initial_sp]

InitSavesAfterWrite(mem, regs, param, len) ==
  LET addr == regs.sp - len
      written == IF param THEN write_bytes_helper(mem, addr, ParamBytes(len))
                 ELSE mem
  IN  [regs |-> [regs EXCEPT !.sp = addr],
       save |-> [addr |-> addr, len |-> len, saved_sp |-> regs.sp,
                 data |-> read_bytes_helper(written, addr, len)],
       mem |-> written]

\* AutoRestoreMem::init: the registers with the stack pointer moved down, the
\* bytes found there, and the memory with the parameter, if any, written.
AutoRestoreMemInit(mem, regs, param, len) ==
  LET addr == regs.sp - len
  IN  [regs |-> [regs EXCEPT !.sp = addr],
       save |-> [addr |-> addr, len |-> len, saved_sp |-> regs.sp,
                 data |-> read_bytes_helper(mem, addr, len)],
       mem |-> IF param THEN write_bytes_helper(mem, addr, ParamBytes(len))
               ELSE mem]

\* The bytes borrowed by the live AutoRestoreMem objects.
LiveScratch ==
  UNION {ar_saves[i].addr .. ar_saves[i].addr + ar_saves[i].len - 1 :
           i \in 1..Len(ar_saves)}

\* Where the tracee's stack pointer can be when a scope begins: inside a
\* mapping or at its end.
StackPointers == {a + 1 : a \in ArAddrs}

StartTask(sp) ==
  [regs |-> [ip |-> 100, sp |-> sp, syscallno |-> 7, result |-> 0],
   mem |-> [a \in ArAddrs |-> a % 3]]

NoScope == [state |-> "none", mem_params |-> FALSE,
            done_initial_exec |-> FALSE, initial_regs |-> StartTask(0).regs,
            initial_ip |-> 0, initial_sp |-> 0]

NoOrig == [regs |-> StartTask(0).regs, mem |-> StartTask(0).mem,
           base_mem |-> StartTask(0).mem, base_sp |-> 0,
           syscalls |-> 0, dirtied |-> FALSE, released |-> 0, nested |-> FALSE]

ArInit ==
  /\ \E sp \in StackPointers : ar_task = StartTask(sp)
  /\ ar_remote = NoScope
  /\ ar_saves = <<>>
  /\ ar_orig = NoOrig

ArIdle ==
  /\ ar_task = StartTask(5)
  /\ ar_remote = NoScope
  /\ ar_saves = <<>>
  /\ ar_orig = NoOrig

\* AutoRemoteSyscalls remote(t, enable_mem_params)
OpenScope ==
  /\ ar_remote.state = "none"
  /\ \E enable_mem_params \in BOOLEAN, done_initial_exec \in BOOLEAN :
       ar_remote' = Construct(ar_task.regs, enable_mem_params, done_initial_exec)
  /\ ar_orig' = [ar_orig EXCEPT !.regs = ar_task.regs, !.mem = ar_task.mem]
  /\ UNCHANGED <<ar_task, ar_saves>>
  /\ UNCHANGED arOthers

\* AutoRestoreMem(remote, mem, num_bytes).  The ASSERT ends rr when memory
\* parameters were disabled.
PushMem ==
  /\ ar_remote.state = "open"
  /\ Len(ar_saves) < MaxSaves
  /\ IF ar_remote.initial_regs.sp = 0
       THEN /\ ar_remote' = [ar_remote EXCEPT !.state = "aborted"]
            /\ UNCHANGED <<ar_task, ar_saves, ar_orig>>
       ELSE \E len \in 1..MaxScratch, param \in BOOLEAN :
              /\ ar_remote.initial_regs.sp - len >= 1
              /\ LET made == AutoRestoreMemInit(ar_task.mem,
                               ar_remote.initial_regs, param, len)
                 IN  /\ ar_remote' = [ar_remote EXCEPT !.initial_regs = made.regs]
                     /\ ar_task' = [regs |-> made.regs, mem |-> made.mem]
                     /\ ar_saves' = Append(ar_saves, made.save)
                     /\ ar_orig' =
                          IF ar_saves = <<>>
                            THEN [ar_orig EXCEPT
                                    !.base_mem = ar_task.mem,
                                    !.base_sp = ar_remote.initial_regs.sp,
                                    !.dirtied = param, !.released = 0,
                                    !.nested = FALSE]
                            ELSE [ar_orig EXCEPT
                                    !.dirtied = @ \/ param, !.nested = TRUE]
  /\ UNCHANGED arOthers

\* remote.task()->write_mem into a borrowed area.
WriteScratch ==
  /\ ar_remote.state = "open"
  /\ \E a \in LiveScratch :
       /\ ar_task.mem[a] # 7
       /\ ar_task' = [ar_task EXCEPT !.mem[a] = 7]
  /\ ar_orig' = [ar_orig EXCEPT !.dirtied = TRUE]
  /\ UNCHANGED <<ar_remote, ar_saves>>
  /\ UNCHANGED arOthers

\* syscall_helper and wait_syscall: the task gets the call registers, goes
\* through the syscall instruction and comes back with a result; the kernel
\* may have written into a borrowed area.
RemoteSyscall ==
  /\ ar_remote.state = "open"
  /\ ar_orig.syscalls < MaxSyscalls
  /\ LET callregs == [ar_remote.initial_regs EXCEPT !.syscallno = 2]
         after == [callregs EXCEPT !.ip = @ + syscall_instruction_length,
                                   !.result = 3]
     IN  \/ /\ ar_task' = [ar_task EXCEPT !.regs = after]
            /\ ar_orig' = [ar_orig EXCEPT !.syscalls = @ + 1]
         \/ \E a \in LiveScratch :
              /\ ar_task' = [regs |-> after,
                             mem |-> [ar_task.mem EXCEPT ![a] = 8]]
              /\ ar_orig' = [ar_orig EXCEPT !.syscalls = @ + 1,
                                            !.dirtied = TRUE]
  /\ UNCHANGED <<ar_remote, ar_saves>>
  /\ UNCHANGED arOthers

\* ~AutoRestoreMem of the innermost object.  A build with assert() ends the
\* process when the stack pointer is not where the object left it.
PopMem ==
  /\ ar_remote.state = "open"
  /\ ar_saves # <<>>
  /\ LET top == ar_saves[Len(ar_saves)]
         regs == [ar_remote.initial_regs EXCEPT !.sp = @ + top.len]
         released ==
           /\ ar_task' = [regs |-> regs,
                          mem |-> write_bytes_helper(ar_task.mem, top.addr,
                                                     top.data)]
           /\ ar_remote' = [ar_remote EXCEPT !.initial_regs = regs]
           /\ ar_saves' = SubSeq(ar_saves, 1, Len(ar_saves) - 1)
           /\ ar_orig' = [ar_orig EXCEPT
                            !.released = IF @ < MaxSaves THEN @ + 1 ELSE @]
     IN  \/ /\ top.saved_sp = ar_remote.initial_regs.sp + top.len
            /\ released
         \/ /\ top.saved_sp # ar_remote.initial_regs.sp + top.len
            /\ \/ released
               \/ /\ ar_remote' = [ar_remote EXCEPT !.state = "aborted"]
                  /\ UNCHANGED <<ar_task, ar_saves, ar_orig>>
  /\ UNCHANGED arOthers

\* ~AutoRemoteSyscalls, when every AutoRestoreMem of the scope is gone.
CloseScope ==
  /\ ar_remote.state = "open"
  /\ ar_saves = <<>>
  /\ ar_task' = [ar_task EXCEPT !.regs =
                   restore_state_to(ar_remote.initial_regs,
                                    ar_remote.initial_ip, ar_remote.initial_sp)]
  /\ ar_remote' = [ar_remote EXCEPT !.state = "closed"]
  /\ UNCHANGED <<ar_saves, ar_orig>>
  /\ UNCHANGED arOthers

ArNext ==
  OpenScope \/ PushMem \/ WriteScratch \/ RemoteSyscall \/ PopMem \/ CloseScope

(***************************************************************************)
(*  untraced_syscall_base (preload.c)                                      *)
(*                                                                         *)
(*  The untraced syscall and the three instructions after it that pick the *)
(*  wrapper's value: the kernel's result while recording, rec->ret while   *)
(*  replaying.                                                             *)
(***************************************************************************)

\* Values a syscall returns, and values the tracer stores into rec->ret.
SyscallRets == {0 - 1, 0, 3, 7}

\* unsigned char in_replay: 0 during recording, 1 during replay.
InReplayValues == {0, 1}

UsStart(in_replay, rec_ret) ==
  /\ us_env = [in_replay |-> in_replay, rec_ret |-> rec_ret]
  /\ us_cpu = [pc |-> "raw_syscall", ret |-> 0, tmp_in_replay |-> 0,
               zf |-> FALSE, raw |-> 0, executed |-> <<>>]

UsInit == \E in_replay \in InReplayValues, rec_ret \in SyscallRets : UsStart(in_replay, rec_ret)

UsIdle == UsStart(0, 0)

\* long ret = _raw_syscall(...): the value the syscall instruction leaves in
\* %rax, which is the kernel's result while recording; during replay the
\* syscall is not executed and the register "may be invalid (e.g. 0)".
RawSyscall ==
  /\ us_cpu.pc = "raw_syscall"
  /\ \E rax \in SyscallRets :
       us_cpu' = [us_cpu EXCEPT !.ret = rax, !.raw = rax, !.pc = "load"]
  /\ UNCHANGED us_env
  /\ UNCHANGED usOthers

\* unsigned char tmp_in_replay = in_replay;
LoadInReplay ==
  /\ us_cpu.pc = "load"
  /\ us_cpu' = [us_cpu EXCEPT !.tmp_in_replay = us_env.in_replay, !.pc = "test"]
  /\ UNCHANGED us_env
  /\ UNCHANGED usOthers

\* test %1,%1: ZF is set when tmp_in_replay AND tmp_in_replay is zero.
TestInsn ==
  /\ us_cpu.pc = "test"
  /\ us_cpu' = [us_cpu EXCEPT !.zf = (us_cpu.tmp_in_replay = 0),
                              !.executed = Append(@, "test"),
                              !.pc = "cmovne"]
  /\ UNCHANGED us_env
  /\ UNCHANGED usOthers

CmoveInsn(zf, src, dst) == IF zf THEN src ELSE dst

\* cmovne src,dst: dst takes src when ZF is clear.
CmovneInsn(zf, src, dst) == IF ~zf THEN src ELSE dst

\* cmovne %2,%0 with %2 = rec->ret and %0 = ret
Cmovne ==
  /\ us_cpu.pc = "cmovne"
  /\ us_cpu' = [us_cpu EXCEPT !.ret = CmovneInsn(us_cpu.zf, us_env.rec_ret, @),
                              !.executed = Append(@, "cmovne"),
                              !.pc = "xor"]
  /\ UNCHANGED us_env
  /\ UNCHANGED usOthers

\* xor %1,%1
XorInsn ==
  /\ us_cpu.pc = "xor"
  /\ us_cpu' = [us_cpu EXCEPT !.tmp_in_replay = 0, !.zf = TRUE,
                              !.executed = Append(@, "xor"),
                              !.pc = "return"]
  /\ UNCHANGED us_env
  /\ UNCHANGED usOthers

\* return ret;
UsReturn ==
  /\ us_cpu.pc = "return"
  /\ us_cpu' = [us_cpu EXCEPT !.pc = "returned"]
  /\ UNCHANGED us_env
  /\ UNCHANGED usOthers

UsNext == RawSyscall \/ LoadInReplay \/ TestInsn \/ Cmovne \/ XorInsn \/ UsReturn

(***************************************************************************)
(*  REGISTER COMPARISON (Registers.cc, kernel_abi.h)                       *)
(*                                                                         *)
(*  A register value is the sequence of its 16-bit limbs, lowest first: a  *)
(*  4-byte field has two limbs and an 8-byte field has four.               *)
(***************************************************************************)

MaxEdits == 2     \* registers set to another value before the comparison

Limb == 2 ^ 16

RECURSIVE BitAnd(_, _)
BitAnd(a, b) ==
  IF a = 0 \/ b = 0 THEN 0
  ELSE (a % 2) * (b % 2) + 2 * BitAnd(a \div 2, b \div 2)

RECURSIVE BitXor(_, _)
BitXor(a, b) ==
  IF a = 0 /\ b = 0 THEN 0
  ELSE ((a + b) % 2) + 2 * BitXor(a \div 2, b \div 2)

\* uint64_t val = 0; memcpy(&val, field, nbytes);
AsUint64(v) == [i \in 1..4 |-> IF i <= Len(v) THEN v[i] ELSE 0]

MaskLow16(nbytes) == <<Limb - 1, 0, 0, 0>>

\* RegisterValue::mask_for_nbytes
mask_for_nbytes(nbytes) == [i \in 1..4 |-> IF 2 * i <= nbytes THEN Limb - 1 ELSE 0]

NoMask == <<0, 0, 0, 0>>

X86_RESERVED_FLAG == 2 ^ 1
X86_IF_FLAG == 2 ^ 9
X86_RF_FLAG == 2 ^ 16
X86_ID_FLAG == 2 ^ 21

\* ~uint32_t(X86_RESERVED_FLAG | X86_IF_FLAG | X86_RF_FLAG | X86_ID_FLAG),
\* widened to uint64_t.
deterministic_eflags_mask ==
  <<(Limb - 1) - (X86_RESERVED_FLAG + X86_IF_FLAG),
    (Limb - 1) - ((X86_RF_FLAG + X86_ID_FLAG) \div Limb), 0, 0>>

\* RV_X86 / RV_X64: the mask covers the whole field.
RV(name, nbytes) ==
  [name |-> name, nbytes |-> nbytes, comparison_mask |-> mask_for_nbytes(nbytes)]

\* RV_X86_WITH_MASK / RV_X64_WITH_MASK
RV_WITH_MASK(name, nbytes, comparison_mask) ==
  [name |-> name, nbytes |-> nbytes, comparison_mask |-> comparison_mask]

\* RegisterInfo<Arch>::registers; of the general registers that are entered
\* alike, eax / rax stands for all.
registers(arch) ==
  IF arch = "x86"
    THEN { RV("eax", 4), RV_WITH_MASK("eflags", 4, deterministic_eflags_mask),
           RV_WITH_MASK("xcs", 4, NoMask), RV_WITH_MASK("xss", 4, NoMask),
           RV_WITH_MASK("xds", 4, NoMask), RV_WITH_MASK("xes", 4, NoMask),
           RV("xfs", 4), RV("xgs", 4),
           RV_WITH_MASK("orig_eax", 4, NoMask) }
    ELSE { RV("rax", 8), RV_WITH_MASK("rsp", 8, NoMask),
           RV_WITH_MASK("eflags", 4, deterministic_eflags_mask),
           RV_WITH_MASK("cs", 4, NoMask), RV_WITH_MASK("ss", 4, NoMask),
           RV_WITH_MASK("ds", 4, NoMask), RV_WITH_MASK("es", 4, NoMask),
           RV("fs", 4), RV("gs", 4),
           RV_WITH_MASK("orig_rax", 8, NoMask) }

\* The _upper halves that X64Arch::user_regs_struct keeps as fields of their own.
UpperFields ==
  {"cs_upper", "ds_upper", "es_upper", "fs_upper", "gs_upper", "ss_upper",
   "eflags_upper"}

Fields(arch) ==
  {rv.name : rv \in registers(arch)} \cup (IF arch = "x64" THEN UpperFields ELSE {})

\* if ((val1 ^ val2) & rv.comparison_mask)
MaskedDiffer(val1, val2, comparison_mask) ==
  \E i \in 1..4 : BitAnd(BitXor(val1[i], val2[i]), comparison_mask[i]) # 0

\* compare_registers_core: the names of the registers it finds to mismatch.
compare_registers_core(arch, reg1, reg2) ==
  { rv.name : rv \in
      { r \in registers(arch) :
          /\ r.nbytes # 0
          /\ r.comparison_mask # NoMask
          /\ MaskedDiffer(AsUint64(reg1[r.name]), AsUint64(reg2[r.name]),
                          r.comparison_mask) } }

\* The sign of a field read as int32_t, or as (intptr_t) of a uint64_t.
IsNegative(v) == v[Len(v)] >= Limb \div 2

OrigAxAlwaysCompared(v1, v2) == TRUE

\* if (reg1.orig_eax >= 0 || reg2.orig_eax >= 0)
OrigAxCompared(v1, v2) == ~IsNegative(v1) \/ ~IsNegative(v2)

\* REGCMP(user_regs, _reg)
REGCMP(reg1, reg2, field) == IF reg1[field] # reg2[field] THEN {field} ELSE {}

\* compare_registers_arch<X86Arch> and <X64Arch>
compare_registers_arch(arch, reg1, reg2) ==
  LET orig == IF arch = "x86" THEN "orig_eax" ELSE "orig_rax"
  IN  compare_registers_core(arch, reg1, reg2)
      \cup (IF OrigAxCompared(reg1[orig], reg2[orig])
              THEN REGCMP(reg1, reg2, orig) ELSE {})
      \cup (IF arch = "x64"
              THEN UNION {REGCMP(reg1, reg2, f) : f \in UpperFields}
              ELSE {})

\* Values of a field: a start value first, then others that differ from it in
\* the low 16 bits, above bit 15, or in sign.
FieldValues(arch, field) ==
  IF field \in UpperFields THEN {<<0, 0>>, <<1, 0>>}
  ELSE IF field = "orig_eax"
    THEN {<<3, 0>>, <<5, 0>>, <<Limb - 1, Limb - 1>>, <<Limb - 4, Limb - 1>>}
  ELSE IF field = "orig_rax"
    THEN {<<3, 0, 0, 0>>, <<5, 0, 0, 0>>,
          <<Limb - 1, Limb - 1, Limb - 1, Limb - 1>>,
          <<Limb - 4, Limb - 1, Limb - 1, Limb - 1>>}
  ELSE IF field = "eflags"
    THEN {<<2, 0>>, <<2 + X86_IF_FLAG, 0>>, <<3, 0>>, <<2, 1>>}
  ELSE IF field \in {"rax", "rsp"}
    THEN {<<7, 0, 0, 0>>, <<8, 0, 0, 0>>, <<7, 0, 0, 1>>}
  ELSE {<<51, 0>>, <<43, 0>>, <<51, 1>>}

StartValue(arch, field) ==
  IF field \in UpperFields THEN <<0, 0>>
  ELSE IF field = "orig_eax" THEN <<3, 0>>
  ELSE IF field = "orig_rax" THEN <<3, 0, 0, 0>>
  ELSE IF field = "eflags" THEN <<2, 0>>
  ELSE IF field \in {"rax", "rsp"} THEN <<7, 0, 0, 0>>
  ELSE <<51, 0>>

StartFile(arch) == [f \in Fields(arch) |-> StartValue(arch, f)]

NotCompared == [done |-> FALSE, match |-> TRUE, mismatched |-> {}]

RgStart(arch) ==
  /\ rg_files = [arch |-> arch, reg1 |-> StartFile(arch), reg2 |-> StartFile(arch),
                 edits |-> 0]
  /\ rg_cmp = NotCompared

RgInit == \E arch \in {"x86", "x64"} : RgStart(arch)

RgIdle == RgStart("x86")

\* The recorded or the replayed task's registers come to differ in one field.
SetRegister ==
  /\ ~rg_cmp.done
  /\ rg_files.edits < MaxEdits
  /\ \E which \in {"reg1", "reg2"}, f \in Fields(rg_files.arch) :
       \E v \in FieldValues(rg_files.arch, f) :
         rg_files' = [rg_files EXCEPT ![which][f] = v, !.edits = @ + 1]
  /\ UNCHANGED rg_cmp
  /\ UNCHANGED rgOthers

\* Registers::compare_register_files_internal
CompareRegisterFiles ==
  /\ ~rg_cmp.done
  /\ LET found == compare_registers_arch(rg_files.arch, rg_files.reg1, rg_files.reg2)
     IN  rg_cmp' = [done |-> TRUE, match |-> found = {}, mismatched |-> found]
  /\ UNCHANGED rg_files
  /\ UNCHANGED rgOthers

RgNext == SetRegister \/ CompareRegisterFiles

(***************************************************************************)
(*  TASK IDENTITY (Session.cc, Session.h)                                  *)
(*                                                                         *)
(*  Session::task_map is indexed by tid; a Task carries the serial it was  *)
(*  made with.  A TaskUid is the pair of a task's tid and serial.  Each    *)
(*  Task object also has an id here, so that two objects with the same tid *)
(*  can be told apart.                                                     *)
(***************************************************************************)

MaxCreated == 4    \* tasks made in one session
NumPids == 2       \* tids the kernel hands out, and hands out again

TmTids == 1..NumPids

\* nullptr
NoTask == [rec_tid |-> 0, serial |-> 0, id |-> 0]

\* Task::tuid()
tuid(t) == [tid |-> t.rec_tid, serial |-> t.serial]

\* Session::find_task(pid_t rec_tid)
find_task(task_map, rec_tid) ==
  IF rec_tid \in DOMAIN task_map THEN task_map[rec_tid] ELSE NoTask

FindTaskByTidAlone(task_map, uid) == find_task(task_map, uid.tid)

\* Session::find_task(const TaskUid& tuid)
find_task_tuid(task_map, uid) ==
  LET t == find_task(task_map, uid.tid)
  IN  IF t # NoTask /\ tuid(t) = uid THEN t ELSE NoTask

NothingFound == [done |-> FALSE, task |-> NoTask]

TmStart ==
  /\ tm_session = [task_map |-> <<>>, next_task_serial_ |-> 1, created |-> 0]
  /\ tm_gdb = [uid |-> tuid(NoTask), of |-> 0, found |-> NothingFound]

TmInit == TmStart

TmIdle == TmStart

\* Session::clone and on_create(Task*): a task is made with the next serial and
\* entered under its tid.  The kernel gives a new task a tid no live task has.
SessionClone ==
  /\ tm_session.created < MaxCreated
  /\ \E new_rec_tid \in TmTids \ DOMAIN tm_session.task_map :
       LET c == [rec_tid |-> new_rec_tid,
                 serial |-> tm_session.next_task_serial_,
                 id |-> tm_session.created + 1]
       IN  tm_session' = [task_map |-> [t \in DOMAIN tm_session.task_map \cup {new_rec_tid} |->
                                          IF t = new_rec_tid THEN c
                                          ELSE tm_session.task_map[t]],
                          next_task_serial_ |-> tm_session.next_task_serial_ + 1,
                          created |-> tm_session.created + 1]
  /\ tm_gdb' = [tm_gdb EXCEPT !.found = NothingFound]
  /\ UNCHANGED tmOthers

\* Session::on_destroy(Task*)
SessionOnDestroy ==
  /\ \E rec_tid \in DOMAIN tm_session.task_map :
       tm_session' = [tm_session EXCEPT
                        !.task_map = [t \in DOMAIN @ \ {rec_tid} |-> @[t]]]
  /\ tm_gdb' = [tm_gdb EXCEPT !.found = NothingFound]
  /\ UNCHANGED tmOthers

\* last_continue_tuid = t->tuid();
KeepTuid ==
  /\ \E rec_tid \in DOMAIN tm_session.task_map :
       LET t == tm_session.task_map[rec_tid]
       IN  tm_gdb' = [uid |-> tuid(t), of |-> t.id, found |-> NothingFound]
  /\ UNCHANGED tm_session
  /\ UNCHANGED tmOthers

\* Task* t = session.find_task(last_continue_tuid);
FindKeptTask ==
  /\ tm_gdb.of # 0
  /\ ~tm_gdb.found.done
  /\ tm_gdb' = [tm_gdb EXCEPT
                  !.found = [done |-> TRUE,
                             task |-> find_task_tuid(tm_session.task_map, tm_gdb.uid)]]
  /\ UNCHANGED tm_session
  /\ UNCHANGED tmOthers

TmNext == SessionClone \/ SessionOnDestroy \/ KeepTuid \/ FindKeptTask

(***************************************************************************)
(*  REPLAY'S CHOICE OF TASK (ReplaySession.h, Scheduler.h)                 *)
(***************************************************************************)

NumReplayTasks == 3   \* tasks of the replayed session
TraceLen == 4         \* frames of the trace

RpTids == 1..NumReplayTasks

\* The priority a task was recorded with; a lower number is a higher priority.
RecordedPriority(tid) == NumReplayTasks - tid

\* What the recording scheduler would pick: the task with the best priority.
HighestPriorityTask(session) ==
  CHOOSE t \in {session.task_map[tid] : tid \in DOMAIN session.task_map} :
    \A tid \in DOMAIN session.task_map : t.priority <= session.task_map[tid].priority

\* ReplaySession::current_task(): find_task(trace_frame.tid())
current_task(session) == find_task(session.task_map, session.trace_frame.tid)

\* The frame advance_to_next_trace_frame leaves in trace_frame: the next one
\* of the trace.
FrameAt(trace, pos) == IF pos <= Len(trace) THEN trace[pos] ELSE [tid |-> 0, time |-> 0]

RpStart(trace) ==
  /\ rp_session = [task_map |-> [tid \in RpTids |->
                                   [rec_tid |-> tid, priority |-> RecordedPriority(tid)]],
                   trace |-> trace, pos |-> 1, trace_frame |-> FrameAt(trace, 1)]
  /\ rp_resumed = <<>>

\* Traces a recording of these tasks can have left: each frame names one task.
Traces == {[i \in 1..TraceLen |-> [tid |-> f[i], time |-> i]] : f \in [1..TraceLen -> RpTids]}

RpInit == \E trace \in Traces : RpStart(trace)

RpIdle == RpStart([i \in 1..TraceLen |-> [tid |-> 1, time |-> i]])

\* ReplaySession::replay_step: the current task is resumed until it reaches
\* the frame's event, and the session moves on to the next frame.
ReplayStep ==
  /\ rp_session.pos <= Len(rp_session.trace)
  /\ LET t == current_task(rp_session)
     IN  /\ rp_resumed' = Append(rp_resumed, t)
         /\ rp_session' = [rp_session EXCEPT
                             !.pos = @ + 1,
                             !.trace_frame = FrameAt(rp_session.trace, rp_session.pos + 1)]
  /\ UNCHANGED rpOthers

RpNext == ReplayStep

(***************************************************************************)
(*     DEBUGGER SERVER: debug_one_step, restart, checkpoints (GdbServer.cc) *)
(***************************************************************************)

\* The timeline's marks are the positions 0..MaxMark of the replay.
MaxMark == 1
Marks == 0..MaxMark

\* The most checkpoint ids invoke_checkpoint hands out in a run of the model.
MaxCheckpointId == 1
CheckpointIds == 1..MaxCheckpointId

\* The most explicit checkpoints the timeline holds at one mark in a run of
\* the model.
MaxExplicit == 2

NoMark == 0 - 1

\* Checkpoint(): no mark, NOT_EXPLICIT.
NoCheckpoint == [mark |-> NoMark, is_explicit |-> FALSE]

\* ReplayTimeline::add_explicit_checkpoint / remove_explicit_checkpoint: the
\* timeline counts the explicit checkpoints at each mark.
add_explicit_checkpoint(d) == [d EXCEPT !.explicit[d.mark] = @ + 1]

remove_explicit_checkpoint(d, mark) ==
  IF d.explicit[mark] > 0
    THEN [d EXCEPT !.explicit[mark] = @ - 1]
    ELSE [d EXCEPT !.removed_missing = TRUE]

\* Checkpoint(timeline, last_continue_tuid, e, where): an EXPLICIT one takes
\* its mark from add_explicit_checkpoint(), the other from mark().
Checkpoint(d, e) ==
  [ds |-> IF e THEN add_explicit_checkpoint(d) ELSE d,
   cp |-> [mark |-> d.mark, is_explicit |-> e]]

\* if (timeline.can_add_checkpoint()) EXPLICIT else NOT_EXPLICIT
activate_debugger(d, can_add) ==
  LET c == Checkpoint(d, can_add)
  IN  [c.ds EXCEPT !.debugger_restart_checkpoint = c.cp]

\* serve_replay up to its loop: the replay has reached the target, where
\* at_target() has found can_add_checkpoint() true, and activate_debugger()
\* has run.
DsStart ==
  activate_debugger(
    [state |-> "serving",
     interrupt_pending |-> FALSE,
     last_resume_request |-> "DREQ_NONE",
     in_debuggee_end_state |-> FALSE,
     mark |-> 0,
     in_group |-> TRUE,
     breakpoints |-> FALSE,
     checkpoints |-> [id \in CheckpointIds |-> NoCheckpoint],
     has_checkpoint |-> {},
     gNextCheckpointId |-> 0,
     debugger_restart_checkpoint |-> NoCheckpoint,
     explicit |-> [m \in Marks |-> 0],
     removed_missing |-> FALSE], TRUE)

NothingSent == <<>>

DsInit == ds = DsStart /\ ds_sent = NothingSent

DsIdle == ds = DsStart /\ ds_sent = NothingSent

\* ---- requests ------------------------------------------------------------

Req(t, dir, rtype, param) ==
  [type |-> t, dir |-> dir, rtype |-> rtype, param |-> param]

ContRequests == {Req("DREQ_CONT", dir, "", 0) : dir \in {"RUN_FORWARD", "RUN_BACKWARD"}}

\* A restart names the previous start, an event, or a checkpoint id (which
\* may be one that was never handed out or has been deleted).
RestartRequests ==
  {Req("DREQ_RESTART", "", "RESTART_FROM_PREVIOUS", 0)}
  \cup {Req("DREQ_RESTART", "", "RESTART_FROM_EVENT", m) : m \in Marks}
  \cup {Req("DREQ_RESTART", "", "RESTART_FROM_CHECKPOINT", id) : id \in CheckpointIds}

\* What process_debugger_requests may return.
StepRequests ==
  ContRequests \cup RestartRequests
  \cup {Req("DREQ_INTERRUPT", "", "", 0), Req("DREQ_DETACH", "", "", 0)}

\* last_resume_request as a request: GdbRequest() when none was received.
LastResume(d) ==
  IF d.last_resume_request = "DREQ_NONE" THEN Req("DREQ_NONE", "", "", 0)
  ELSE Req("DREQ_CONT", d.last_resume_request, "", 0)

\* ---- restart_session -----------------------------------------------------

\* GdbServer::restart_session(req).  in is what the calls into the timeline give:
\* can_add_checkpoint(), and whether the task current at the place restored
\* belongs to the debuggee's task group.
RestartSession(d, req, in) ==
  LET d1 == [d EXCEPT !.in_debuggee_end_state = FALSE, !.breakpoints = FALSE]
      found == req.param \in d.has_checkpoint
      checkpoint_to_restore ==
        IF req.rtype = "RESTART_FROM_CHECKPOINT" THEN d.checkpoints[req.param]
        ELSE IF req.rtype = "RESTART_FROM_PREVIOUS" THEN d.debugger_restart_checkpoint
        ELSE NoCheckpoint
      d2 == [d1 EXCEPT !.interrupt_pending = TRUE]
  IN  IF req.rtype = "RESTART_FROM_CHECKPOINT" /\ ~found
        THEN [ds |-> d1, sent |-> <<"restart_failed">>]
      ELSE IF checkpoint_to_restore.mark # NoMark
        THEN LET d3 == [d2 EXCEPT !.mark = checkpoint_to_restore.mark,
                                  !.in_group = in.in_group]
                 d4 == IF d3.debugger_restart_checkpoint.is_explicit
                         THEN remove_explicit_checkpoint(
                                d3, d3.debugger_restart_checkpoint.mark)
                         ELSE d3
                 d5 == [d4 EXCEPT !.debugger_restart_checkpoint = checkpoint_to_restore]
             IN  [ds |-> IF in.can_add THEN add_explicit_checkpoint(d5) ELSE d5,
                  sent |-> <<>>]
      \* RESTART_FROM_EVENT: seek and replay up to the target (or to the exit
      \* of the debuggee's last thread), then activate_debugger().
      ELSE LET d3 == [d2 EXCEPT !.mark = req.param, !.in_group = TRUE,
                                !.in_debuggee_end_state = in.last_exit]
           IN  [ds |-> activate_debugger(d3, in.can_add), sent |-> <<>>]

\* ---- debug_one_step ------------------------------------------------------

\* debug_one_step reads a request, unless an interrupt is pending and a
\* resume request is there to go on with.
ReadsRequest(d) ==
  d.in_debuggee_end_state \/ ~d.interrupt_pending
    \/ d.last_resume_request = "DREQ_NONE"

\* The replay step of debug_one_step and what follows it.
RunStep(d, dir, in) ==
  IF in.exited
    THEN [ds |-> [d EXCEPT !.state = "exited"], sent |-> <<"exit_code">>]
  ELSE LET m == IF dir = "RUN_FORWARD" THEN IF d.mark < MaxMark THEN d.mark + 1 ELSE d.mark
                ELSE IF d.mark > 0 THEN d.mark - 1 ELSE d.mark
           stops == in.stop /\ (d.in_group \/ in.in_group)
           ends == dir = "RUN_FORWARD" /\ in.last_exit /\ d.in_group
       IN  [ds |-> [d EXCEPT !.mark = m, !.in_group = in.in_group,
                             !.in_debuggee_end_state = @ \/ ends],
            sent |-> IF stops THEN <<"stop">> ELSE <<>>]

\* From "if (req.is_resume_request())" on.  asserts: the build has assertions.
AfterRestartTest(d, req, in, asserts) ==
  LET interrupt == req.type # "DREQ_CONT"
      d1 == IF interrupt THEN [d EXCEPT !.interrupt_pending = TRUE]
            ELSE [d EXCEPT !.last_resume_request = req.dir]
      r == IF interrupt THEN LastResume(d) ELSE req
  IN  IF r.type # "DREQ_CONT" /\ asserts         \* assert(req.is_resume_request())
        THEN [ds |-> [d1 EXCEPT !.state = "aborted"], sent |-> <<>>]
      ELSE IF d1.interrupt_pending /\ d1.in_group
        THEN [ds |-> [d1 EXCEPT !.interrupt_pending = FALSE],
              sent |-> <<"stop_interrupt">>]
      ELSE IF r.type # "DREQ_CONT"
        \* req.cont() of a request that is none: what is in the union decides
        THEN RunStep(d1, in.garbage, in)
      ELSE RunStep(d1, r.dir, in)

\* debug_one_step with req the request it goes on with.
debug_one_step(d, req, in, asserts) ==
  LET fakes_exit == /\ d.in_debuggee_end_state
                    /\ req.type = "DREQ_CONT" /\ req.dir = "RUN_FORWARD"
                    /\ ~d.interrupt_pending
      d1 == IF d.in_debuggee_end_state
                 /\ ~(req.type = "DREQ_CONT" /\ req.dir = "RUN_FORWARD")
              THEN [d EXCEPT !.in_debuggee_end_state = FALSE] ELSE d
  IN  IF fakes_exit
        THEN [ds |-> [d EXCEPT !.state = "exited"], sent |-> <<"exit_code">>]
      ELSE IF req.type = "DREQ_RESTART"
        THEN LET r == RestartSession(d1, req, in)
             IN  [ds |-> [r.ds EXCEPT !.last_resume_request = "DREQ_NONE"],
                  sent |-> r.sent]
      ELSE IF req.type = "DREQ_DETACH"
        THEN [ds |-> [d1 EXCEPT !.state = "stopped",
                                !.last_resume_request = "DREQ_NONE"],
              sent |-> <<>>]
      ELSE AfterRestartTest(d1, req, in, asserts)

\* What the calls into the timeline give in one step: can_add_checkpoint(),
\* and of the replay step its status, whether the task then current belongs
\* to the debuggee's task group, whether maybe_notify_stop has a stop to
\* report, and whether the group's last thread is exiting; asserts says that
\* the build has assertions, garbage what a request that is none holds as its
\* direction.  The inputs that bear on the step that handles req in state d (the others
\* are left at one value).
StepInputs(d, req) ==
  LET restart == req.type = "DREQ_RESTART"
      from_event == restart /\ req.rtype = "RESTART_FROM_EVENT"
      from_mark == restart /\ ~from_event
      none == req.type = "DREQ_INTERRUPT" /\ d.last_resume_request = "DREQ_NONE"
      B(on) == IF on THEN BOOLEAN ELSE {FALSE}
      Ran == {in \in [can_add : {FALSE}, exited : BOOLEAN, in_group : BOOLEAN,
                      stop : BOOLEAN, last_exit : BOOLEAN,
                      garbage : IF none THEN {"RUN_FORWARD", "RUN_BACKWARD"}
                                ELSE {"RUN_FORWARD"},
                      asserts : B(none)] :
                /\ in.exited => ~in.in_group /\ ~in.stop /\ ~in.last_exit
                /\ in.stop => d.in_group \/ in.in_group
                /\ in.last_exit => d.in_group}
  IN  IF req.type \in {"DREQ_CONT", "DREQ_INTERRUPT"} THEN Ran
      ELSE [can_add : B(restart), exited : {FALSE}, in_group : B(from_mark),
            stop : {FALSE}, last_exit : B(from_event),
            garbage : {"RUN_FORWARD"}, asserts : {FALSE}]

WithinExplicitBound(d) == \A m \in Marks : d.explicit[m] <= MaxExplicit

\* One call of debug_one_step from serve_replay's loop.
DebugOneStep ==
  /\ ds.state = "serving"
  /\ \E req \in (IF ReadsRequest(ds) THEN StepRequests ELSE {LastResume(ds)}) :
     \E in \in StepInputs(ds, req) :
       LET r == debug_one_step(ds, req, in, in.asserts)
       IN  /\ WithinExplicitBound(r.ds)
           /\ ds' = r.ds
           /\ ds_sent' = r.sent
  /\ UNCHANGED dsOthers

\* handle_exited_state, after its notify_exit_code: a restart or a detach is
\* served, anything else is FATAL.
HandleExitedState ==
  /\ ds.state = "exited"
  /\ \E req \in StepRequests : \E in \in StepInputs(ds, req) :
       LET r == IF req.type = "DREQ_RESTART"
                  THEN LET s == RestartSession(ds, req, in)
                       IN  [ds |-> [s.ds EXCEPT !.state = "serving",
                                                !.last_resume_request = "DREQ_NONE"],
                            sent |-> s.sent]
                ELSE IF req.type = "DREQ_DETACH"
                  THEN [ds |-> [ds EXCEPT !.state = "stopped",
                                          !.last_resume_request = "DREQ_NONE"],
                        sent |-> <<>>]
                ELSE [ds |-> [ds EXCEPT !.state = "fatal"], sent |-> <<>>]
       IN  /\ WithinExplicitBound(r.ds)
           /\ ds' = r.ds
           /\ ds_sent' = r.sent
  /\ UNCHANGED dsOthers

\* ---- requests served within process_debugger_requests --------------------

InProcessDebuggerRequests ==
  \/ ds.state = "serving" /\ ReadsRequest(ds)
  \/ ds.state = "exited"

\* "checkpoint": invoke_checkpoint.
invoke_checkpoint(d, can_add) ==
  LET checkpoint_id == d.gNextCheckpointId + 1
      c == Checkpoint(d, can_add)
  IN  [c.ds EXCEPT !.gNextCheckpointId = checkpoint_id,
                   !.checkpoints[checkpoint_id] = c.cp,
                   !.has_checkpoint = @ \cup {checkpoint_id}]

InvokeCheckpoint ==
  /\ InProcessDebuggerRequests
  /\ ds.gNextCheckpointId < MaxCheckpointId
  /\ \E can_add \in BOOLEAN :
       /\ WithinExplicitBound(invoke_checkpoint(ds, can_add))
       /\ ds' = invoke_checkpoint(ds, can_add)
  /\ ds_sent' = <<>>
  /\ UNCHANGED dsOthers

\* "delete checkpoint": invoke_delete_checkpoint.
invoke_delete_checkpoint(d, id) ==
  IF id \in d.has_checkpoint
    THEN LET d1 == IF d.checkpoints[id].is_explicit
                     THEN remove_explicit_checkpoint(d, d.checkpoints[id].mark)
                     ELSE d
         IN  [d1 EXCEPT !.has_checkpoint = @ \ {id},
                        !.checkpoints[id] = NoCheckpoint]
    ELSE d

InvokeDeleteCheckpoint ==
  /\ InProcessDebuggerRequests
  /\ \E id \in CheckpointIds : ds' = invoke_delete_checkpoint(ds, id)
  /\ ds_sent' = <<>>
  /\ UNCHANGED dsOthers

\* DREQ_SET_SW_BREAK and its like: timeline.add_breakpoint / add_watchpoint.
TimelineSetBreak ==
  /\ InProcessDebuggerRequests
  /\ ds' = [ds EXCEPT !.breakpoints = TRUE]
  /\ ds_sent' = <<>>
  /\ UNCHANGED dsOthers

DsNext ==
  \/ DebugOneStep \/ HandleExitedState
  \/ InvokeCheckpoint \/ InvokeDeleteCheckpoint \/ TimelineSetBreak
(***************************************************************************)
(*  DEBUGGER SERVER: requests that query or select a thread (GdbServer.cc) *)
(***************************************************************************)

\* The tids a request may name: those the kernel hands out and one it never
\* does; 0 names no thread.
RequestTids == 0..(NumPids + 1)

ThreadRequestTypes ==
  {"DREQ_GET_IS_THREAD_ALIVE", "DREQ_GET_THREAD_EXTRA_INFO",
   "DREQ_SET_CONTINUE_THREAD", "DREQ_SET_QUERY_THREAD"}

ThStart ==
  /\ th_session = [task_map |-> <<>>, next_task_serial_ |-> 1, created |-> 0]
  /\ th_gdb = [state |-> "serving",
               last_query_tuid |-> tuid(NoTask),
               last_continue_tuid |-> tuid(NoTask),
               reply |-> <<>>]

ThInit == ThStart

ThIdle == ThStart

\* Session::clone and on_create(Task*), as in SessionClone.
ThreadCreated ==
  /\ th_gdb.state = "serving"
  /\ th_session.created < MaxCreated
  /\ \E new_rec_tid \in TmTids \ DOMAIN th_session.task_map :
       LET c == [rec_tid |-> new_rec_tid,
                 serial |-> th_session.next_task_serial_,
                 id |-> th_session.created + 1]
       IN  th_session' = [task_map |-> [t \in DOMAIN th_session.task_map \cup {new_rec_tid} |->
                                          IF t = new_rec_tid THEN c
                                          ELSE th_session.task_map[t]],
                          next_task_serial_ |-> th_session.next_task_serial_ + 1,
                          created |-> th_session.created + 1]
  /\ UNCHANGED th_gdb
  /\ UNCHANGED thOthers

\* Session::on_destroy(Task*)
ThreadDestroyed ==
  /\ th_gdb.state = "serving"
  /\ \E rec_tid \in DOMAIN th_session.task_map :
       th_session' = [th_session EXCEPT
                        !.task_map = [t \in DOMAIN @ \ {rec_tid} |-> @[t]]]
  /\ UNCHANGED th_gdb
  /\ UNCHANGED thOthers

\* The second part of dispatch_debugger_request, for a request of one of the
\* four types that "query or manipulate which task is the target".
\* null_deref: what target->name() of a null target comes to, the server
\* killed by SIGSEGV or some bytes sent as the name.
DispatchThreadRequest(g, task_map, rtype, tid, null_deref) ==
  LET is_query == rtype # "DREQ_SET_CONTINUE_THREAD"
      target == IF tid > 0 THEN find_task(task_map, tid)
                ELSE find_task_tuid(task_map, IF is_query THEN g.last_query_tuid
                                              ELSE g.last_continue_tuid)
      g1 == IF target = NoTask THEN g
            ELSE IF is_query THEN [g EXCEPT !.last_query_tuid = tuid(target)]
            ELSE [g EXCEPT !.last_continue_tuid = tuid(target)]
  IN  IF rtype = "DREQ_GET_IS_THREAD_ALIVE"
        THEN [g1 EXCEPT !.reply = <<"get_is_thread_alive", target # NoTask>>]
      ELSE IF rtype = "DREQ_GET_THREAD_EXTRA_INFO"
        THEN IF target # NoTask
               THEN [g1 EXCEPT !.reply = <<"get_thread_extra_info", target.id>>]
             ELSE IF null_deref = "SIGSEGV"
               THEN [g1 EXCEPT !.state = "crashed", !.reply = <<>>]
             ELSE [g1 EXCEPT !.reply = <<"get_thread_extra_info", 0>>]
      ELSE [g1 EXCEPT !.reply = <<"select_thread", target # NoTask>>]

\* The debugger sends one of the four requests.
ThreadRequest ==
  /\ th_gdb.state = "serving"
  /\ \E rtype \in ThreadRequestTypes, tid \in RequestTids,
        null_deref \in {"SIGSEGV", "garbage"} :
       th_gdb' = DispatchThreadRequest(th_gdb, th_session.task_map, rtype, tid, null_deref)
  /\ UNCHANGED th_session
  /\ UNCHANGED thOthers

ThNext == ThreadCreated \/ ThreadDestroyed \/ ThreadRequest
(***************************************************************************)
(*  REMOTE SYSCALLS: retrieving a file descriptor (AutoRemoteSyscalls.cc)  *)
(***************************************************************************)

\* The tracee's descriptors that may be asked for, retrievals made in a row.
MaxFd == 2
MaxRetrievals == 3
\* How many unread one-byte messages a connected stream socket takes before
\* sendmsg blocks (the kernel's send buffer; far more than one in practice).
SockBufMsgs == 1
\* listen(listen_sock, 1)
ListenBacklog == 1

TraceeFds == 0..MaxFd
NoFd == 0 - 1
\* The open file a descriptor of the tracee refers to.
FileOf(fd) == fd + 10

RfStart ==
  /\ rf_tracer = [pc |-> "idle", fd |-> NoFd, socketcall |-> FALSE,
                  listen_sock |-> FALSE, sock |-> FALSE,
                  pending_syscallno |-> "none", our_fd |-> NoFd,
                  retrieved |-> 0]
  /\ rf_tracee = [status |-> "stopped", syscallno |-> "none", result |-> 0,
                  child_sock |-> FALSE, sent_fd |-> NoFd]
  /\ rf_sock = [listening |-> FALSE, backlog |-> 0, connected |-> FALSE,
                queue |-> <<>>]
  /\ rf_events = <<>>

RfInit == RfStart

RfIdle == RfStart

\* syscall_helper(DONT_WAIT, ...): the tracee is resumed into the syscall and
\* the tracer goes on.
syscall_helper(tracee, syscallno) ==
  [tracee EXCEPT !.status = "in_syscall", !.syscallno = syscallno, !.result = 0]

\* ---- the tracer: retrieve_fd_arch, cut where it may block ----------------

\* create_bind_and_listen_socket, child_create_socket (a remote syscall that
\* is waited for) and child_connect_socket, which leaves the tracee in its
\* connect().
RetrieveFd ==
  /\ rf_tracer.pc = "idle"
  /\ rf_tracer.retrieved < MaxRetrievals
  /\ \E fd \in TraceeFds, has_socketcall \in BOOLEAN :
       /\ rf_tracer' = [rf_tracer EXCEPT !.pc = "accept", !.fd = fd,
                          !.socketcall = has_socketcall,
                          !.listen_sock = TRUE, !.our_fd = NoFd,
                          !.pending_syscallno =
                             IF has_socketcall THEN "socketcall" ELSE "connect"]
       /\ rf_tracee' = [syscall_helper(rf_tracee, "connect") EXCEPT
                          !.child_sock = TRUE, !.sent_fd = NoFd]
  /\ rf_sock' = [listening |-> TRUE, backlog |-> 0, connected |-> FALSE,
                 queue |-> <<>>]
  /\ rf_events' = <<"listen", "connect_started">>
  /\ UNCHANGED rfOthers

\* int sock = accept(listen_sock, nullptr, nullptr): returns once a
\* connection is queued on the listening socket.
Accept ==
  /\ rf_tracer.pc = "accept"
  /\ rf_sock.backlog > 0
  /\ rf_tracer' = [rf_tracer EXCEPT !.pc = "wait_connect", !.sock = TRUE]
  /\ rf_sock' = [rf_sock EXCEPT !.backlog = @ - 1]
  /\ rf_events' = Append(rf_events, "accept")
  /\ UNCHANGED rf_tracee
  /\ UNCHANGED rfOthers

\* wait_syscall() for the connect, the test of its result, fchdir and close
\* of cwd_fd, close(listen_sock), unlink(path), and child_sendmsg, which
\* leaves the tracee in its sendmsg().
WaitConnectThenChildSendmsg ==
  /\ rf_tracer.pc = "wait_connect"
  /\ rf_tracee.status = "syscall_exit"
  /\ IF rf_tracee.result # 0
       THEN /\ rf_tracer' = [rf_tracer EXCEPT !.pc = "FATAL",
                                              !.pending_syscallno = "none"]
            /\ rf_tracee' = [rf_tracee EXCEPT !.status = "stopped"]
            /\ rf_sock' = rf_sock
            /\ rf_events' = Append(rf_events, "connect_waited")
       ELSE /\ rf_tracer' = [rf_tracer EXCEPT !.pc = "wait_sendmsg",
                               !.listen_sock = FALSE,
                               !.pending_syscallno =
                                  IF rf_tracer.socketcall THEN "socketcall"
                                  ELSE "sendmsg"]
            /\ rf_tracee' = [syscall_helper(rf_tracee, "sendmsg") EXCEPT
                               !.sent_fd = rf_tracer.fd]
            /\ rf_sock' = [rf_sock EXCEPT !.listening = FALSE]
            /\ rf_events' = rf_events \o <<"connect_waited", "sendmsg_started">>
  /\ UNCHANGED rfOthers

\* wait_syscall() for the sendmsg and the test of its result.
WaitSendmsg ==
  /\ rf_tracer.pc = "wait_sendmsg"
  /\ rf_tracee.status = "syscall_exit"
  /\ rf_tracer' = [rf_tracer EXCEPT
                     !.pc = IF 0 >= rf_tracee.result THEN "FATAL" ELSE "recvmsg",
                     !.pending_syscallno = "none"]
  /\ rf_tracee' = [rf_tracee EXCEPT !.status = "stopped"]
  /\ rf_events' = Append(rf_events, "sendmsg_waited")
  /\ UNCHANGED rf_sock
  /\ UNCHANGED rfOthers

\* recvmsg_socket(sock), which returns once a message is there, then the
\* remote close(child_sock), close(sock) and the return of the descriptor.
RecvmsgSocket ==
  /\ rf_tracer.pc = "recvmsg"
  /\ rf_sock.queue # <<>>
  /\ rf_tracer' = [rf_tracer EXCEPT !.pc = "idle", !.sock = FALSE,
                     !.our_fd = Head(rf_sock.queue),
                     !.retrieved = @ + 1]
  /\ rf_tracee' = [rf_tracee EXCEPT !.child_sock = FALSE, !.syscallno = "none"]
  /\ rf_sock' = [rf_sock EXCEPT !.queue = Tail(@), !.connected = FALSE]
  /\ rf_events' = Append(rf_events, "recvmsg")
  /\ UNCHANGED rfOthers

\* ---- the tracee's syscalls, as the kernel runs them ----------------------

\* connect() on a stream socket: refused when nobody listens, queued on the
\* listener when its backlog has room, and finished then, accepted or not.
TraceeConnect ==
  /\ rf_tracee.status = "in_syscall"
  /\ rf_tracee.syscallno = "connect"
  /\ rf_sock.listening => rf_sock.backlog <= ListenBacklog
  /\ IF rf_sock.listening
       THEN /\ rf_sock' = [rf_sock EXCEPT !.backlog = @ + 1, !.connected = TRUE]
            /\ rf_tracee' = [rf_tracee EXCEPT !.status = "syscall_exit", !.result = 0]
       ELSE /\ rf_sock' = rf_sock
            /\ rf_tracee' = [rf_tracee EXCEPT !.status = "syscall_exit",
                                              !.result = 0 - 111]
  /\ rf_events' = Append(rf_events, "connect_finished")
  /\ UNCHANGED rf_tracer
  /\ UNCHANGED rfOthers

\* The mutant kernel: sendmsg() finishes only once the peer is in recvmsg().
TraceeSendmsgOnceReceiverWaits ==
  /\ rf_tracee.status = "in_syscall"
  /\ rf_tracee.syscallno = "sendmsg"
  /\ rf_sock.connected
  /\ rf_tracer.pc = "recvmsg"
  /\ rf_sock' = [rf_sock EXCEPT !.queue = Append(@, FileOf(rf_tracee.sent_fd))]
  /\ rf_tracee' = [rf_tracee EXCEPT !.status = "syscall_exit", !.result = 1]
  /\ rf_events' = Append(rf_events, "sendmsg_finished")
  /\ UNCHANGED rf_tracer
  /\ UNCHANGED rfOthers

\* sendmsg() of one byte and an SCM_RIGHTS control message on the connected
\* socket: finished as soon as the message is queued for the peer, which
\* needs room in the buffer and nothing of the receiver.
TraceeSendmsg ==
  /\ rf_tracee.status = "in_syscall"
  /\ rf_tracee.syscallno = "sendmsg"
  /\ rf_sock.connected
  /\ Len(rf_sock.queue) < SockBufMsgs
  /\ rf_sock' = [rf_sock EXCEPT !.queue = Append(@, FileOf(rf_tracee.sent_fd))]
  /\ rf_tracee' = [rf_tracee EXCEPT !.status = "syscall_exit", !.result = 1]
  /\ rf_events' = Append(rf_events, "sendmsg_finished")
  /\ UNCHANGED rf_tracer
  /\ UNCHANGED rfOthers

RfTracerStep == RetrieveFd \/ Accept \/ WaitConnectThenChildSendmsg \/ WaitSendmsg \/ RecvmsgSocket

RfTraceeStep == TraceeConnect \/ TraceeSendmsg

RfNext == RfTracerStep \/ RfTraceeStep
(***************************************************************************)
(*  OPENING A TRACE (TraceStream.cc)                                       *)
(***************************************************************************)

TRACE_VERSION == 41

MaxTraceFrames == 3   \* frames a recording leaves in the trace

\* Versions an engine may have written: this engine's, an older and a newer one.
WrittenVersions == {TRACE_VERSION - 1, TRACE_VERSION, TRACE_VERSION + 1}

TraceDirs == {"rr/a-0", "rr/b-1", "rr/c-2"}

\* TraceStream::version_path(); "+" of strings is kept as the pair.
version_path(trace_dir) == <<trace_dir, "/version">>

\* A version file: whether it can be opened, whether a number can be read from
\* it, and that number.
NoVersionFile == [good |-> FALSE, parses |-> FALSE, number |-> 0]
VersionFile(v) == [good |-> TRUE, parses |-> TRUE, number |-> v]
GarbledVersionFile == [good |-> TRUE, parses |-> FALSE, number |-> 0]

NoMessage == [file |-> <<>>, found |-> <<>>, expected |-> <<>>]

TvStart ==
  /\ tv_dir = [trace_dir |-> "rr/a-0", recorded |-> FALSE,
               version |-> NoVersionFile, frames |-> 0]
  /\ tv_reader = [state |-> "none", stderr |-> NoMessage, frames_read |-> 0]

TvInit == TvStart

TvIdle == TvStart

\* TraceWriter::TraceWriter and the recording after it, by this engine or by
\* one of another version: version << TRACE_VERSION << endl;
Record ==
  /\ ~tv_dir.recorded
  /\ \E dir \in TraceDirs, v \in WrittenVersions, n \in 0..MaxTraceFrames :
       tv_dir' = [trace_dir |-> dir, recorded |-> TRUE,
                  version |-> VersionFile(v), frames |-> n]
  /\ UNCHANGED tv_reader
  /\ UNCHANGED tvOthers

\* The version file is lost from the trace directory, or its content is
\* damaged.
DamageVersionFile ==
  /\ tv_dir.recorded
  /\ tv_reader.state = "none"
  /\ tv_dir.version.good /\ tv_dir.version.parses
  /\ \E damaged \in {NoVersionFile, GarbledVersionFile} :
       tv_dir' = [tv_dir EXCEPT !.version = damaged]
  /\ UNCHANGED tv_reader
  /\ UNCHANGED tvOthers

AnyVersionAccepted(fail, version) == TRUE

\* The negation of: if (vfile.fail() || TRACE_VERSION != version)
VersionAccepted(fail, version) == ~(fail \/ TRACE_VERSION # version)

\* TraceReader::TraceReader
OpenTrace ==
  /\ tv_dir.recorded
  /\ tv_reader.state = "none"
  /\ LET path == version_path(tv_dir.trace_dir)
         vfile == tv_dir.version
         version == IF vfile.parses THEN vfile.number ELSE 0
     IN  IF ~vfile.good
           THEN tv_reader' = [tv_reader EXCEPT
                                !.state = "exited",
                                !.stderr = [file |-> path, found |-> <<>>,
                                            expected |-> <<>>]]
           ELSE IF ~VersionAccepted(~vfile.parses, version)
             THEN tv_reader' = [tv_reader EXCEPT
                                  !.state = "exited",
                                  !.stderr = [file |-> path, found |-> <<version>>,
                                              expected |-> <<TRACE_VERSION>>]]
             ELSE tv_reader' = [tv_reader EXCEPT !.state = "open"]
  /\ UNCHANGED tv_dir
  /\ UNCHANGED tvOthers

\* TraceReader::read_frame on the reader that was opened.
ReadOpenedFrame ==
  /\ tv_reader.state = "open"
  /\ tv_reader.frames_read < tv_dir.frames
  /\ tv_reader' = [tv_reader EXCEPT !.frames_read = @ + 1]
  /\ UNCHANGED tv_dir
  /\ UNCHANGED tvOthers

TvNext == Record \/ DamageVersionFile \/ OpenTrace \/ ReadOpenedFrame

(***************************************************************************)
(*                          SPECIFICATIONS                                 *)
(***************************************************************************)

SyscallbufInit == SbInit /\ CwIdle /\ GdbIdle /\ AsIdle /\ MmIdle /\ TsIdle /\ KsIdle /\ ArIdle /\ UsIdle /\ RgIdle /\ TmIdle /\ RpIdle /\ TvIdle /\ DsIdle /\ ThIdle /\ RfIdle

WriterInit == SbInit /\ CwInit /\ GdbIdle /\ AsIdle /\ MmIdle /\ TsIdle /\ KsIdle /\ ArIdle /\ UsIdle /\ RgIdle /\ TmIdle /\ RpIdle /\ TvIdle /\ DsIdle /\ ThIdle /\ RfIdle

GdbServerInit == SbInit /\ CwIdle /\ GdbInit /\ AsIdle /\ MmIdle /\ TsIdle /\ KsIdle /\ ArIdle /\ UsIdle /\ RgIdle /\ TmIdle /\ RpIdle /\ TvIdle /\ DsIdle /\ ThIdle /\ RfIdle

AddressSpaceInit == SbInit /\ CwIdle /\ GdbIdle /\ AsInit /\ MmIdle /\ TsIdle /\ KsIdle /\ ArIdle /\ UsIdle /\ RgIdle /\ TmIdle /\ RpIdle /\ TvIdle /\ DsIdle /\ ThIdle /\ RfIdle

TraceStreamInit == SbInit /\ CwIdle /\ GdbIdle /\ AsIdle /\ MmIdle /\ TsInit /\ KsIdle /\ ArIdle /\ UsIdle /\ RgIdle /\ TmIdle /\ RpIdle /\ TvIdle /\ DsIdle /\ ThIdle /\ RfIdle

SessionInit == SbInit /\ CwIdle /\ GdbIdle /\ AsIdle /\ MmIdle /\ TsIdle /\ KsInit /\ ArIdle /\ UsIdle /\ RgIdle /\ TmIdle /\ RpIdle /\ TvIdle /\ DsIdle /\ ThIdle /\ RfIdle

RemoteSyscallsInit == SbInit /\ CwIdle /\ GdbIdle /\ AsIdle /\ MmIdle /\ TsIdle /\ KsIdle /\ ArInit /\ UsIdle /\ RgIdle /\ TmIdle /\ RpIdle /\ TvIdle /\ DsIdle /\ ThIdle /\ RfIdle

UntracedSyscallInit == SbInit /\ CwIdle /\ GdbIdle /\ AsIdle /\ MmIdle /\ TsIdle /\ KsIdle /\ ArIdle /\ UsInit /\ RgIdle /\ TmIdle /\ RpIdle /\ TvIdle /\ DsIdle /\ ThIdle /\ RfIdle

RegistersInit == SbInit /\ CwIdle /\ GdbIdle /\ AsIdle /\ MmIdle /\ TsIdle /\ KsIdle /\ ArIdle /\ UsIdle /\ RgInit /\ TmIdle /\ RpIdle /\ TvIdle /\ DsIdle /\ ThIdle /\ RfIdle

TaskMapInit == SbInit /\ CwIdle /\ GdbIdle /\ AsIdle /\ MmIdle /\ TsIdle /\ KsIdle /\ ArIdle /\ UsIdle /\ RgIdle /\ TmInit /\ RpIdle /\ TvIdle /\ DsIdle /\ ThIdle /\ RfIdle

ReplayInit == SbInit /\ CwIdle /\ GdbIdle /\ AsIdle /\ MmIdle /\ TsIdle /\ KsIdle /\ ArIdle /\ UsIdle /\ RgIdle /\ TmIdle /\ RpInit /\ TvIdle /\ DsIdle /\ ThIdle /\ RfIdle

TraceOpenInit == SbInit /\ CwIdle /\ GdbIdle /\ AsIdle /\ MmIdle /\ TsIdle /\ KsIdle /\ ArIdle /\ UsIdle /\ RgIdle /\ TmIdle /\ RpIdle /\ TvInit /\ DsIdle /\ ThIdle /\ RfIdle

DebugSessionInit == SbInit /\ CwIdle /\ GdbIdle /\ AsIdle /\ MmIdle /\ TsIdle /\ KsIdle /\ ArIdle /\ UsIdle /\ RgIdle /\ TmIdle /\ RpIdle /\ TvIdle /\ DsInit /\ ThIdle /\ RfIdle

ThreadRequestInit == SbInit /\ CwIdle /\ GdbIdle /\ AsIdle /\ MmIdle /\ TsIdle /\ KsIdle /\ ArIdle /\ UsIdle /\ RgIdle /\ TmIdle /\ RpIdle /\ TvIdle /\ DsIdle /\ ThInit /\ RfIdle

RetrieveFdInit == SbInit /\ CwIdle /\ GdbIdle /\ AsIdle /\ MmIdle /\ TsIdle /\ KsIdle /\ ArIdle /\ UsIdle /\ RgIdle /\ TmIdle /\ RpIdle /\ TvIdle /\ DsIdle /\ ThIdle /\ RfInit

MemoryMapInit == SbInit /\ CwIdle /\ GdbIdle /\ AsIdle /\ MmInit /\ TsIdle /\ KsIdle /\ ArIdle /\ UsIdle /\ RgIdle /\ TmIdle /\ RpIdle /\ TvIdle /\ DsIdle /\ ThIdle /\ RfIdle

SpecSyscallbuf == SyscallbufInit /\ [][SbNext]_vars

SpecWriter == WriterInit /\ [][CwNext]_vars

\* The threads are scheduled fairly, and the producer runs on once it has
\* called write() or close().
SpecWriterFair ==
  /\ SpecWriter
  /\ WF_vars(ProducerStep)
  /\ \A t \in Threads : WF_vars(ThreadStep(t))

SpecGdb == GdbServerInit /\ [][GdbNext]_vars

SpecAS == AddressSpaceInit /\ [][AsNext]_vars

SpecMM == MemoryMapInit /\ [][MmNext]_vars

SpecTrace == TraceStreamInit /\ [][TsNext]_vars

SpecKill == SessionInit /\ [][KsNext]_vars

\* kill_all_tasks keeps running: it is never suspended for good.
SpecKillFair == SpecKill /\ WF_vars(KsNext)

SpecRemote == RemoteSyscallsInit /\ [][ArNext]_vars

SpecUntraced == UntracedSyscallInit /\ [][UsNext]_vars

SpecRegisters == RegistersInit /\ [][RgNext]_vars

SpecTaskMap == TaskMapInit /\ [][TmNext]_vars

SpecReplay == ReplayInit /\ [][RpNext]_vars

SpecTraceOpen == TraceOpenInit /\ [][TvNext]_vars

SpecDebug == DebugSessionInit /\ [][DsNext]_vars

SpecThreads == ThreadRequestInit /\ [][ThNext]_vars

SpecRetrieveFd == RetrieveFdInit /\ [][RfNext]_vars


\* The tracer runs, and the kernel runs a tracee that has been resumed.
SpecRetrieveFdFair == SpecRetrieveFd /\ WF_vars(RfTracerStep) /\ WF_vars(RfTraceeStep)
\* ---- claims about the syscall buffer -----------------------------------

HeaderFields == {"syscallno", "size", "ret"}

\* The records a tracer finds when it walks the buffer from offset off up to
\* num_rec_bytes are all completely stored.
RECURSIVE CoveredRecordsComplete(_)
CoveredRecordsComplete(off) ==
  IF off >= sb_hdr.num_rec_bytes THEN TRUE
  ELSE /\ off \in RecOffsets
       /\ HeaderFields \subseteq sb_fresh[off]
       /\ stored_record_size(sb_rec[off].size) > 0
       /\ CoveredRecordsComplete(off + stored_record_size(sb_rec[off].size))

IsPrefix(s, t) == Len(s) <= Len(t) /\ s = SubSeq(t, 1, Len(s))

MayBlockFrames == {i \in 1..Len(sb_stack) : sb_stack[i].blk = "MAY_BLOCK"}

\* C3 (as the code has it): a may-block wrapper sets
\* desched_signal_may_be_relevant, arms the desched counter, executes the
\* untraced syscall, clears the flag and only then disarms the counter; what a
\* wrapper has done so far is always an initial part of that sequence.
C3_MayBlockOrder ==
  \A i \in MayBlockFrames :
    IsPrefix(sb_stack[i].log, <<"set_flag", "arm", "syscall", "clear_flag", "disarm">>)

\* A may-block wrapper that has gone through all five steps.
C3_AllFiveSteps ==
  \E i \in MayBlockFrames :
    /\ Len(sb_stack[i].log) = 5
    /\ sb_stack[i].pc = "c_unlock"

\* C3 (as stated): set the flag, arm, untraced syscall, disarm the counter,
\* clear the flag, in exactly this order.
C3_DisarmThenClear ==
  \A i \in MayBlockFrames :
    IsPrefix(sb_stack[i].log, <<"set_flag", "arm", "syscall", "disarm", "clear_flag">>)

\* The statements at which a wrapper has begun its record and has not yet
\* stored both its size and its ret.
RecordOpenPcs ==
  {"st_no", "st_desched", "st_size", "set_flag", "arm", "untraced",
   "c_size", "c_locked", "c_clear", "c_check", "c_abort", "c_abort_ret", "c_ret"}

\* C4: on every path through a wrapper, locked is set from before the first
\* write into the record area until the record's size and ret are stored.
C4_LockedWhileRecordOpen ==
  \A i \in 1..Len(sb_stack) :
    sb_stack[i].pc \in RecordOpenPcs => sb_hdr.locked = 1

\* The record of frame f, with the bytes read() may store behind its header,
\* does not fit before the last sizeof(struct syscallbuf_record) bytes of the
\* buffer.
NoRoom(f) ==
  f.rec + SizeofRecord + (IF f.w = "read" THEN f.count ELSE 0)
    > buffer_end - SizeofRecord

\* The statements of a wrapper that leaves the buffer alone: before
\* start_commit_buffered_syscall, at the traced syscall, and at its return.
TracedPathPcs == {"start", "traced", "return"}

\* C22: a wrapper whose fd is disabled (or outside the table), or whose record
\* finds no room in the buffer, goes to the traced syscall: it never comes to
\* the statements that store a record or advance num_rec_bytes.
C22_FallbackToTraced ==
  \A i \in 1..Len(sb_stack) :
    LET f == sb_stack[i]
    IN  (f.fd_off \/ (f.pc # "start" /\ NoRoom(f))) => f.pc \in TracedPathPcs


\* The wrapper at the top of the stack takes a step of its own (the trap of
\* its traced syscall, where the tracer acts, is not one).
TopWrapperSteps ==
  /\ Len(sb_stack) > 0
  /\ Len(sb_stack') = Len(sb_stack)
  /\ Top.pc # "traced"
  /\ sb_stack'[Len(sb_stack)].pc # Top.pc

\* C32: a wrapper whose prep_syscall returned NULL (the buffer was locked, or
\* the fd is disabled) goes from start_commit_buffered_syscall to the traced
\* syscall, and none of its steps changes locked, the record area or
\* num_rec_bytes, whatever count it was called with.
C32_LocklessAttemptTouchesNothing ==
  [][(TopWrapperSteps /\ ~Top.took_lock) =>
       /\ sb_stack'[Len(sb_stack)].pc \in TracedPathPcs
       /\ sb_hdr'.locked = sb_hdr.locked
       /\ sb_hdr'.num_rec_bytes = sb_hdr.num_rec_bytes
       /\ sb_rec' = sb_rec]_vars

\* The wrapper at the top of the stack takes a step of the abort path of
\* commit_raw_syscall: from the test of abort_commit to its return.
AbortPathStep ==
  /\ TopWrapperSteps
  /\ Top.pc = "c_abort" \/ Top.aborting

\* C37: a commit that finds abort_commit set clears it and zeroes the
\* record's ret; none of its steps advances num_rec_bytes (which stays as it
\* was, but for the tracer's reset to zero at the disarm ioctl of a
\* descheduled syscall); the desched counter is off before locked is
\* released; and at its return locked and abort_commit are clear and the
\* record's ret is zero.
C37_AbortedCommitNotPublished ==
  [][AbortPathStep =>
       LET f == Top
           g == sb_stack'[Len(sb_stack)]
           o == OffsetOf(f.rec)
       IN  /\ \/ sb_hdr'.num_rec_bytes = sb_hdr.num_rec_bytes
              \/ f.pc = "c_desched" /\ f.desched_seen /\ sb_hdr'.num_rec_bytes = 0
           /\ f.pc = "c_abort" => sb_hdr'.abort_commit = 0
           /\ f.pc = "c_abort_ret" => sb_rec'[o].ret = 0
           /\ g.pc = "c_unlock" => ~sb_armed'
           /\ g.pc = "return" =>
                /\ sb_hdr'.locked = 0
                /\ sb_hdr'.abort_commit = 0
                /\ sb_rec'[o].ret = 0]_vars

\* ---- claims about the compressed writer --------------------------------

Writing == {t \in Threads : cw_thr[t].pc = "writing"}

\* Where the k-th block of the file must begin when nothing is missing.
BlockStart(k) == IF k = 1 THEN 0 ELSE cw_file[k - 1].pos + cw_file[k - 1].len

FileEnd == BlockStart(Len(cw_file) + 1)

NoBlockMissing == \A k \in 1..Len(cw_file) : cw_file[k].pos = BlockStart(k)

\* C2: the blocks are written to the file in the order in which they were
\* handed to the threads (each later block after every earlier one, none
\* skipped unless a ::write failed), and no two threads are in ::write at once.
C2_WritesInSubmissionOrder ==
  /\ Cardinality(Writing) <= 1
  /\ \A k \in 2..Len(cw_file) : cw_file[k - 1].pos < cw_file[k].pos
  /\ \A t \in Writing : \A k \in 1..Len(cw_file) : cw_file[k].pos < cw.thread_pos[t]
  /\ ~cw_io_failed => NoBlockMissing

\* A thread has compressed its block and waits for its turn while an earlier
\* block is still being compressed, with two blocks already in the file.
C2_ThreadWaitsForTurn ==
  /\ Len(cw_file) >= 2
  /\ \E t, u \in Threads :
       /\ cw_thr[t].pc = "turn"
       /\ cw_thr[u].pc = "compress"
       /\ cw.thread_pos[u] < cw.thread_pos[t]

InReservation == cw_prod.pc \in {"ur", "ur_wait"}

\* C5 (as the code has it): write_error and error are never reset; the
\* producer's update_reservation never returns without error set once
\* write_error is set; and once error is set write() takes in no more bytes.
C5_ErrorLatchedAtReservation ==
  [][/\ cw.write_error => cw'.write_error
     /\ cw.error => /\ cw'.error
                     /\ cw'.producer_reserved_write_pos = cw.producer_reserved_write_pos
     /\ (cw.write_error /\ InReservation /\ ~InReservation') => cw'.error]_vars

\* A write() called after a thread's error returns with the writer in the
\* error state, having taken in nothing.
C5_WriteRefused ==
  /\ cw_prod.pc = "w_ret"
  /\ cw_prod.poisoned
  /\ cw.error
  /\ cw_prod.size > 0

\* C5 (as stated): a write() that begins after write_error was set leaves the
\* writer in the error state.
C5_FirstWriteAfterErrorFails ==
  (cw_prod.pc = "w_ret" /\ cw_prod.poisoned) => cw.error

NoErrorOccurred == ~cw.error /\ ~cw.write_error /\ ~cw_io_failed

CloseCalled == cw_prod.ret_to = "cl_closing" \/ cw_prod.pc = "closed"

\* C6: close() always returns, and when no error occurred it has returned only
\* after every byte write() took in is in the file, the partial last block
\* included, and every thread has exited.
C6_CloseCompletes ==
  /\ [](cw_prod.pc = "closed" /\ NoErrorOccurred =>
         /\ NoBlockMissing
         /\ FileEnd = cw.producer_reserved_write_pos
         /\ \A t \in Threads : cw_thr[t].pc = "exited")
  /\ (CloseCalled ~> cw_prod.pc = "closed")

\* close() has returned without any error and the last block it flushed was a
\* partial one.
C6_ClosedAfterPartialBlock ==
  /\ cw_prod.pc = "closed"
  /\ NoErrorOccurred
  /\ Len(cw_file) >= 2
  /\ cw_file[Len(cw_file)].len < block_size


\* The positions whose bytes are still needed from the ring buffer: those of
\* the blocks the threads hold, and those handed over but not yet taken.
PositionsInUse ==
  UNION {cw.thread_pos[t]..(cw.thread_pos[t] + cw_thr[t].ulen - 1) :
           t \in {u \in Threads : cw.thread_pos[u] # UINT64_MAX}}
  \cup (cw.next_thread_pos..(cw.next_thread_end_pos - 1))

\* The positions the producer may copy to under its reservation.
PositionsReserved ==
  cw.producer_reserved_write_pos..(cw.producer_reserved_upto_pos - 1)

\* C30: the producer's reservation never reaches beyond the lowest position a
\* thread still holds or has not yet taken, plus the size of the buffer, and
\* what the producer has copied lies within the reservation; so no byte of the
\* ring buffer the producer may copy to is a byte still in use.
C30_ReservationSparesHeldBlocks ==
  /\ cw.producer_reserved_upto_pos <= completed_pos(cw) + BufferSize
  /\ cw.producer_reserved_write_pos <= cw.producer_reserved_upto_pos
  /\ \A q \in PositionsReserved, p \in PositionsInUse :
       q % BufferSize # p % BufferSize

\* The producer waits in update_reservation with the ring buffer full, while a
\* thread holds the block at the lowest position.
C30_ProducerWaitsOnFullBuffer ==
  /\ cw_prod.pc = "ur_wait"
  /\ cw.producer_reserved_write_pos = completed_pos(cw) + BufferSize
  /\ \E t \in Threads : cw.thread_pos[t] = completed_pos(cw)

\* The positions at which a full block can begin.
BlockPositions == {p \in 0..MaxBytes : p % block_size = 0}

\* The full block at p has been handed to the threads.
Published(p) == p + block_size <= cw.next_thread_end_pos

InFile(p) == \E k \in 1..Len(cw_file) : cw_file[k].pos = p

\* C31: as long as no error occurs, a producer that waits in
\* update_reservation for room in the ring buffer leaves the wait, and every
\* full block handed to the threads reaches the file (blocks stay handed over
\* and stay in the file, so: time and again, all of them are in the file).
C31_NoDeadlock ==
  /\ (cw_prod.pc = "ur_wait" /\ NoErrorOccurred)
       ~> (cw_prod.pc # "ur_wait" \/ ~NoErrorOccurred)
  /\ []<>(~NoErrorOccurred \/ \A p \in BlockPositions : Published(p) => InFile(p))

\* The producer has been woken from its wait by a thread that wrote a block,
\* and finds room in the ring buffer.
C31_ProducerWokenWithRoom ==
  /\ cw_prod.pc = "ur_wait"
  /\ Producer \notin cw_waiting
  /\ NoErrorOccurred
  /\ Len(cw_file) >= 1
  /\ cw.producer_reserved_pos < completed_pos(cw) + BufferSize

\* C38: when a thread's ::write of a block fails, write_error is set, and the
\* producer has error set by the time close() returns: a file with a block
\* missing is never left with the writer reporting no error.
C38_WriteFailureReachesProducer ==
  /\ cw_io_failed => cw.write_error
  /\ (cw_prod.pc = "closed" /\ cw_io_failed) => cw.error
\* ---- claims about the debugger server's diversions ----------------------

ReqType == gdb.req.type

\* C7 (as the code has it): a diversion begins on a READ_SIGINFO request, with
\* a count of 1; each further READ_SIGINFO adds 1 to the count and each
\* WRITE_SIGINFO takes 1 from it, the diversion going on; and the diversion
\* ends, its count zero, on a resume request that finds the count
\* zero or the diversion's task gone or exiting, or on a RESTART, DETACH or
\* RR_CMD request; a resume request that finds the count zero always ends it.
C7_DiversionLifetime ==
  [][gdb'.state # "aborted" =>
       /\ (~gdb.diverting /\ gdb'.diverting) =>
            (ReqType' = "DREQ_READ_SIGINFO" /\ gdb'.diversion_refcount = 1)
       /\ (gdb.diverting /\ gdb'.diverting /\ ReqType' = "DREQ_READ_SIGINFO") =>
            gdb'.diversion_refcount = (gdb.diversion_refcount + 1) % RefcountMod
       /\ (gdb.diverting /\ ReqType' = "DREQ_WRITE_SIGINFO") =>
            /\ gdb'.diverting
            /\ gdb'.diversion_refcount = (gdb.diversion_refcount - 1) % RefcountMod
       /\ (gdb.diverting /\ ~gdb'.diverting) =>
            /\ gdb'.diversion_refcount = 0
            /\ ReqType' \in {"DREQ_CONT", "DREQ_RESTART", "DREQ_DETACH", "DREQ_RR_CMD"}
       /\ (gdb.diverting /\ gdb.diversion_refcount = 0 /\ ReqType' = "DREQ_CONT") =>
            ~gdb'.diverting]_vars

\* A diversion that has taken a second reference.
C7_SecondReference ==
  /\ gdb.diverting
  /\ gdb.diversion_refcount = 2
  /\ ReqType = "DREQ_READ_SIGINFO"

\* C7 (as stated): the diversion is torn down when the count reaches zero: a
\* diversion whose count is zero handles no request but by ending.
C7_TornDownAtZero ==
  [][(gdb.diverting /\ gdb.diversion_refcount = 0 /\ gdb'.state = "serving") =>
       ~gdb'.diverting]_vars

\* C8: a SET_MEM or SET_REG request never changes the replay session's
\* tracee, and in a diversion it is applied to the diversion's tracee (a
\* SET_MEM of some length, a SET_REG with a defined value, for a thread that
\* exists).
C8_WritesOnlyInDiversion ==
  [][LET r == gdb'.req
     IN /\ r.type \in {"DREQ_SET_MEM", "DREQ_SET_REG"} => gdb'.replay = gdb.replay
        /\ (gdb.diverting /\ r.type = "DREQ_SET_MEM" /\ r.has_target /\ r.len > 0) =>
             gdb'.diversion.mem[r.addr] = r.val
        /\ (gdb.diverting /\ r.type = "DREQ_SET_REG" /\ r.has_target /\ r.defined) =>
             gdb'.diversion.regs[r.name] = r.val]_vars

\* A SET_MEM in a diversion has left the diversion's memory different from the
\* replay's.
C8_DiversionMemoryWritten ==
  /\ gdb.diverting
  /\ ReqType = "DREQ_SET_MEM"
  /\ gdb.req.has_target /\ gdb.req.len > 0
  /\ gdb.diversion.mem[gdb.req.addr] = gdb.req.val
  /\ gdb.replay.mem[gdb.req.addr] # gdb.req.val

\* C9: from its entry on, a diversion has exactly the timeline's breakpoints
\* and watchpoints, whatever set and remove requests it handles.
C9_DiversionMirrorsTimeline ==
  gdb.diverting => gdb.diversion_bps = gdb.timeline_bps

\* A diversion that began with a breakpoint of the timeline's and has since
\* handled a set and a remove request.
C9_SetAndRemovedInDiversion ==
  /\ gdb.diverting
  /\ ReqType = "DREQ_REMOVE_BREAK" /\ gdb.req.has_target
  /\ gdb.timeline_bps[gdb.req.key] = 0
  /\ \E k \in BpKeys : gdb.timeline_bps[k] = 2


\* C29: every request the debugger makes is acted on by exactly one session;
\* the request at which a diversion ends without having handled it is what
\* divert() returns, and the replay session acts on it with the diversion
\* torn down.
C29_DivertHandsOverUnhandled ==
  [][(gdb' # gdb /\ gdb'.state # "aborted") =>
       /\ Cardinality(gdb'.by) = 1
       /\ (gdb.diverting /\ gdb'.by = {"replay"}) =>
            (~gdb'.diverting /\ gdb'.diversion_refcount = 0)]_vars

\* C33: in a diversion a WRITE_SIGINFO request is processed only while the
\* count is positive: its assertion never fails and the count never wraps
\* round below zero.
C33_WriteSiginfoFindsPositiveCount ==
  [][(gdb.diverting /\ ReqType' = "DREQ_WRITE_SIGINFO") =>
       /\ gdb.diversion_refcount > 0
       /\ gdb'.state # "aborted"
       /\ gdb'.diversion_refcount = gdb.diversion_refcount - 1]_vars
\* ---- claims about the address space's breakpoints -----------------------

\* C10: from every state of an address space, for every address and kind,
\* add_breakpoint and then remove_breakpoint give back the same bytes and the
\* same breakpoints with the same reference counts.
C10_AddThenRemoveRestores ==
  \A addr \in AsAddrs, which \in BreakpointTypes :
    remove_breakpoint(add_breakpoint(AsNow, addr, which), addr, which) = AsNow

\* An address space in which one breakpoint has references of both kinds, one
\* overwrites an int3 of the program's own, and one address has none.
C10_MixedBreakpoints ==
  /\ as_breakpoints[64].set
  /\ as_breakpoints[64].user_count = 1 /\ as_breakpoints[64].internal_count = 2
  /\ as_breakpoints[65].set /\ as_breakpoints[65].overwritten_data = breakpoint_insn
  /\ ~as_breakpoints[66].set

\* The references the callers hold on the breakpoint at an address.
HeldAt(a) == as_log.held[a]["BKPT_USER"] + as_log.held[a]["BKPT_INTERNAL"]

\* C11: a remove_breakpoint of a reference its caller holds puts the saved
\* byte back, and destroys the breakpoint, only when that reference is the
\* last of either kind at the address; while another remains the breakpoint
\* instruction stays in memory and the saved byte is kept.  No other address
\* is written.
C11_RemoveRewritesOnLastRef ==
  [][(as_log'.op = "remove" /\ ~as_log'.misused /\ ~as_aborted') =>
       LET a == as_log'.addr
       IN /\ \A o \in AsAddrs \ {a} :
               as_mem'[o] = as_mem[o] /\ as_breakpoints'[o] = as_breakpoints[o]
          /\ HeldAt(a) > 1 =>
               /\ as_breakpoints'[a].set
               /\ as_mem'[a] = breakpoint_insn /\ as_mem[a] = breakpoint_insn
               /\ as_breakpoints'[a].overwritten_data = as_breakpoints[a].overwritten_data
          /\ HeldAt(a) = 1 =>
               /\ ~as_breakpoints'[a].set
               /\ as_mem'[a] = as_breakpoints[a].overwritten_data]_vars

\* The last reference to a breakpoint that had references of both kinds has
\* been removed, and the instruction it overwrote is back.
C11_LastRefRemoved ==
  /\ as_log.op = "remove" /\ ~as_log.misused /\ ~as_aborted
  /\ as_log.addr = 64 /\ as_log.which = "BKPT_INTERNAL"
  /\ ~as_breakpoints[64].set /\ as_mem[64] = 144
  /\ as_breakpoints[65].set /\ as_breakpoints[65].user_count = 2

\* C12: as long as every remove_breakpoint was of a reference its caller
\* held, a breakpoint exists exactly where a reference is held, and its type()
\* is USER if a user reference is held and INTERNAL otherwise.
C12_TypePrefersUser ==
  ~as_log.misused =>
    \A a \in AsAddrs :
      /\ as_breakpoints[a].set <=> HeldAt(a) > 0
      /\ as_breakpoints[a].set =>
           type(as_breakpoints[a]) =
             (IF as_log.held[a]["BKPT_USER"] > 0 THEN "BKPT_USER" ELSE "BKPT_INTERNAL")

\* A breakpoint with references of both kinds has lost its only user
\* reference, and another has only user references.
C12_UserRefDropped ==
  /\ as_log.op = "remove" /\ as_log.which = "BKPT_USER" /\ ~as_log.misused
  /\ as_log.held[as_log.addr]["BKPT_USER"] = 0
  /\ as_log.held[as_log.addr]["BKPT_INTERNAL"] = 2
  /\ \E a \in AsAddrs : as_log.held[a]["BKPT_USER"] = 2 /\ as_log.held[a]["BKPT_INTERNAL"] = 0

\* ---- claims about the address space's memory map -------------------------

\* C13: whatever map, unmap, protect and remap calls were made, every mapping
\* is a range of at least one page and no page belongs to two mappings.
C13_MappingsNeverOverlap ==
  /\ \A e \in mm_mem : 0 <= e.start /\ e.start < e.end /\ e.end <= PageCount
  /\ \A p \in 0 .. PageCount - 1 :
       Cardinality({e \in mm_mem : e.start <= p /\ p < e.end}) <= 1

\* The map holds three mappings next to one another, and one page is free.
C13_ThreeAdjacentMappings ==
  /\ Cardinality(mm_mem) = 3
  /\ \E a, b, c \in mm_mem : a.end = b.start /\ b.end = c.start /\ a.prot = c.prot
  /\ \E p \in 0 .. PageCount - 1 : ~has_mapping(mm_mem, p)

Yielded == {mm_walk.yielded[i] : i \in 1 .. Len(mm_walk.yielded)}

\* C14: while no mapping is added or removed, a loop over maps() sees the
\* mappings in ascending address order, none twice, each one a mapping of the
\* map, and when it ends it has seen them all.
C14_WalkInAddressOrder ==
  mm_walk.pc \in {"test", "body", "done"} =>
    /\ \A i, j \in 1 .. Len(mm_walk.yielded) :
         i < j => mm_walk.yielded[i].end <= mm_walk.yielded[j].start
    /\ Yielded \subseteq Keys(mm_mem)
    /\ mm_walk.pc = "test" =>
         Yielded = {k \in Keys(mm_mem) : k.start < mm_walk.it.ptr}
    /\ mm_walk.pc = "done" => Yielded = Keys(mm_mem)

\* A loop over three mappings has ended, and the protection of a mapping was
\* changed while it ran.
C14_WalkedWhileProtecting ==
  /\ mm_walk.pc = "done"
  /\ mm_walk.touched
  /\ Len(mm_walk.yielded) = 3

(***************************************************************************)
(*  CLAIMS: trace frames                                                   *)
(***************************************************************************)

\* The frames the reader has returned since it was opened or last rewound.
FramesRead == ts_reader.frames

FramesWritten == ts_writer.written

\* A frame with the signal payload the trace keeps for it: si_addr for the
\* fault signals, zero for any other signal.
AsStored(frame) ==
  [frame EXCEPT !.ev.si_addr =
     IF frame.ev.signo \in {SIGILL, SIGFPE, SIGSEGV, SIGBUS, SIGTRAP} THEN @ ELSE 0]

\* C15 (as stated): the frames read are identical to the frames written, in
\* the same order, on the first pass and after rewind().
C15_ReadBackIdentical ==
  /\ Len(FramesRead) <= Len(FramesWritten)
  /\ \A i \in 1..Len(FramesRead) : FramesRead[i] = FramesWritten[i]

\* C15 (amended): the frames read are, in the same order, the frames written
\* with the same event time, tid, ticks, monotonic time, register block and
\* encoded event; si_addr is read back for SIGILL, SIGFPE, SIGSEGV, SIGBUS and
\* SIGTRAP and is zero for any other signal.  The reader reaches the end of
\* the trace exactly when it has returned every frame, and this holds again
\* after rewind().
C15_ReadBackAsStored ==
  /\ ~ts_reader.aborted
  /\ Len(FramesRead) <= Len(FramesWritten)
  /\ \A i \in 1..Len(FramesRead) : FramesRead[i] = AsStored(FramesWritten[i])
  /\ ~ts_writer.open => (at_end <=> Len(FramesRead) = Len(FramesWritten))

\* Every frame has been read again after a rewind, among them a frame with
\* XSAVE registers and a signal frame.
C15_RereadAfterRewind ==
  /\ ts_reader.rewinds = 1
  /\ at_end
  /\ Len(FramesRead) = MaxFrames
  /\ \E i \in 1..MaxFrames : FramesRead[i].recorded_extra_regs.format = "XSAVE"
  /\ \E i \in 1..MaxFrames : FramesRead[i].ev.signo = SIGSEGV
                             /\ FramesRead[i].ev.si_addr = 4096

\* C16: successive frames of a trace have strictly increasing event times, and
\* after the reader has read a frame its global time is the event time stored
\* in that frame.
C16_EventTimeMonotonic ==
  /\ \A i \in 1..Len(FramesWritten) - 1 :
       FramesWritten[i].time < FramesWritten[i + 1].time
  /\ \A i \in 1..Len(FramesRead) - 1 : FramesRead[i].time < FramesRead[i + 1].time
  /\ ~ts_reader.aborted
  /\ Len(FramesRead) > 0 =>
       ts_reader.global_time = FramesRead[Len(FramesRead)].time

\* The reader has read the last of several frames.
C16_LastFrameRead ==
  /\ Len(FramesRead) = MaxFrames
  /\ ts_reader.global_time = MaxFrames

(***************************************************************************)
(*  CLAIMS: shutdown                                                       *)
(***************************************************************************)

DetachPassOver == ks_ctl.pc \in {"kill_loop", "done"}

AtExitSyscall(t) ==
  /\ ks_tasks[t].regs.ip = privileged_traced_syscall_ip
  /\ ks_tasks[t].regs.syscallno = SYS_exit
  /\ ks_tasks[t].regs.arg1 = 0

\* A task that has not exited stably.
Survivor(t) == ~ks_tasks[t].stable_exit

\* C17 (as stated): every tracee is pointed at exit(0) at the safe IP and
\* detached in a first pass, and only after the pass is every surviving task
\* sent SIGKILL and its task group marked unstable.
C17_DetachEachThenKillEach ==
  /\ \A t \in Tids : ks_tasks[t].detached => AtExitSyscall(t)
  /\ \A t \in Tids : ks_tasks[t].killed => DetachPassOver
  /\ DetachPassOver => \A t \in Tids : Survivor(t) => ks_tasks[t].detached
  /\ ks_ctl.pc = "done" =>
       \A t \in Tids : Survivor(t) => ks_tasks[t].killed /\ ks_tasks[t].unstable

\* C17 (amended): the first pass points every task that is stopped and has not
\* exited stably at exit(0) at the safe IP and detaches it, skipping a task
\* that is not stopped; no task is sent SIGKILL before every such task is
\* detached; after the pass every task that has not exited stably and is not
\* already marked unstable is sent SIGKILL and its task group is marked
\* unstable.
C17_DetachPassThenKill ==
  /\ \A t \in Tids :
       ks_tasks[t].detached =>
         AtExitSyscall(t) /\ ks_tasks[t].is_stopped /\ Survivor(t)
  /\ \A t \in Tids :
       ks_tasks[t].killed =>
         /\ Survivor(t)
         /\ ks_tasks[t].unstable
         /\ \A u \in Tids :
              ks_tasks[u].is_stopped /\ Survivor(u) => ks_tasks[u].detached
  /\ DetachPassOver =>
       \A t \in Tids : ks_tasks[t].is_stopped /\ Survivor(t) => ks_tasks[t].detached
  /\ ks_ctl.pc = "done" =>
       /\ ks_task_map = {}
       /\ \A t \in Tids :
            /\ Survivor(t) => ks_tasks[t].unstable
            /\ ks_tasks[t].killed <=>
                 /\ Survivor(t)
                 /\ ~ks_tasks[t].unstable_at_start
                 /\ \A u \in Tids :
                      u > t /\ real_tgid(u) = real_tgid(t) => ~ks_tasks[u].killed

\* Shutdown is over: task 3 was detached and then killed, task 2 was killed
\* and task 1, a thread of the same group, was left to that SIGKILL.
C17_DetachedThenKilled ==
  /\ ks_ctl.pc = "done"
  /\ ks_tasks[3].detached /\ ks_tasks[3].killed
  /\ ks_tasks[2].killed
  /\ Survivor(1) /\ ~ks_tasks[1].killed /\ ks_tasks[1].unstable

\* C18: a PTRACE_DETACH that keeps failing with a transient error is retried
\* only a bounded number of times, so kill_all_tasks comes to an end.
C18_DetachRetriesEnd == <>(ks_ctl.pc \in {"done", "aborted"})

(***************************************************************************)
(*  CLAIMS: remote syscalls                                                *)
(***************************************************************************)

\* C19: when an AutoRemoteSyscalls scope has ended, the tracee's registers,
\* instruction pointer and stack pointer among them, are the registers it had
\* when the scope began, and every byte borrowed on its stack holds its
\* original value, whatever syscalls ran in the scope.
C19_ScopeRestoresTracee ==
  ar_remote.state = "closed" =>
    /\ ar_task.regs = ar_orig.regs
    /\ \A a \in ArAddrs : ar_task.mem[a] = ar_orig.mem[a]

\* A scope has ended in which syscalls ran and borrowed bytes were overwritten,
\* and whose stack pointer had been moved to another area.
C19_ScopeEndedAfterSyscalls ==
  /\ ar_remote.state = "closed"
  /\ ar_orig.syscalls = MaxSyscalls
  /\ ar_orig.dirtied
  /\ ar_remote.initial_sp # ar_orig.base_sp

\* The live areas lie one below the other, the innermost at the stack
\* pointer.
SavesStacked ==
  /\ \A i \in 1..Len(ar_saves) :
       /\ ar_saves[i].addr = ar_saves[i].saved_sp - ar_saves[i].len
       /\ i > 1 => ar_saves[i].saved_sp = ar_saves[i - 1].addr
  /\ ar_saves # <<>> =>
       /\ ar_saves[1].saved_sp = ar_orig.base_sp
       /\ ar_saves[Len(ar_saves)].addr = ar_remote.initial_regs.sp

HasHeadroom(sp) ==
  \E m \in ArMappings :
    /\ m.start <= sp - 1 /\ sp - 1 < m.end
    /\ m.usable
    /\ m.start + Headroom <= sp

\* C21 (as stated): every scratch region is taken below a stack pointer that
\* lies in a private, writable mapping with the headroom below it.
C21_ScratchAlwaysUsable == ar_saves # <<>> => HasHeadroom(ar_orig.base_sp)

\* C21 (amended): once the session's initial exec is done, every scratch
\* region is taken below a stack pointer that lies in a private, writable
\* mapping with the headroom below it.
C21_ScratchUsableAfterExec ==
  ar_saves # <<>> /\ ar_remote.done_initial_exec => HasHeadroom(ar_orig.base_sp)

\* A scratch region was made in a scope whose stack pointer had to be moved.
C21_ScratchOnFoundStack ==
  /\ ar_saves # <<>>
  /\ ar_remote.done_initial_exec
  /\ ar_orig.base_sp # ar_remote.initial_sp


\* ---- claims about the debugger server's steps, restarts and checkpoints --

\* C34: an interrupt request is served whether or not a resume request came
\* before it (the server does not abort on it); the stop for a pending
\* interrupt is sent only when the replay's current task belongs to the
\* debuggee's task group, and interrupt_pending is cleared by the step that
\* sends it and by no other.
C34_InterruptStopsOnce ==
  [][/\ ds'.state # "aborted"
     /\ (ds.interrupt_pending /\ ~ds'.interrupt_pending) =>
          ds_sent' = <<"stop_interrupt">>
     /\ ds_sent' = <<"stop_interrupt">> =>
          ds.in_group /\ ~ds'.interrupt_pending]_vars

\* C35: a restart that names a checkpoint id that does not exist is answered
\* with restart-failed and leaves the replay position, the breakpoints and
\* watchpoints, the end-of-debuggee state and the checkpoints as they were.
C35_FailedRestartChangesNothing ==
  [][ds_sent' = <<"restart_failed">> =>
       /\ ds'.mark = ds.mark
       /\ ds'.breakpoints = ds.breakpoints
       /\ ds'.in_debuggee_end_state = ds.in_debuggee_end_state
       /\ ds'.checkpoints = ds.checkpoints
       /\ ds'.explicit = ds.explicit]_vars

\* The checkpoints that are to be removed from the timeline's mark m: the
\* user's checkpoints and the restart checkpoint that are EXPLICIT.
Registered(m) ==
  Cardinality({id \in ds.has_checkpoint :
                 ds.checkpoints[id].is_explicit /\ ds.checkpoints[id].mark = m})
  + (IF ds.debugger_restart_checkpoint.is_explicit
        /\ ds.debugger_restart_checkpoint.mark = m THEN 1 ELSE 0)

\* C36: the timeline holds, at each mark, as many explicit checkpoints as
\* there are checkpoints registered as explicit there (none left behind), and
\* none is removed that is not there (none removed twice).
C36_ExplicitCheckpointsBalanced ==
  /\ ~ds.removed_missing
  /\ \A m \in Marks : ds.explicit[m] = Registered(m)

\* ---- claims about retrieving a file descriptor from the tracee ----------

\* The place of an event in the current retrieval, 0 when it has not happened.
Happened(e) ==
  IF \E k \in 1..Len(rf_events) : rf_events[k] = e
    THEN CHOOSE k \in 1..Len(rf_events) : rf_events[k] = e
    ELSE 0

Before(a, b) == Happened(b) > 0 => (Happened(a) > 0 /\ Happened(a) < Happened(b))

\* What the tracer is blocked on can happen without any later step of the
\* tracer: the tracee's syscall has finished or the kernel can finish it now,
\* the connection to accept or the message to receive is there or on its way.
TraceeCanFinish ==
  \/ rf_tracee.status = "syscall_exit"
  \/ /\ rf_tracee.status = "in_syscall"
     /\ rf_tracee.syscallno = "connect"
     /\ rf_sock.listening => rf_sock.backlog <= ListenBacklog
  \/ /\ rf_tracee.status = "in_syscall"
     /\ rf_tracee.syscallno = "sendmsg"
     /\ rf_sock.connected
     /\ Len(rf_sock.queue) < SockBufMsgs

NeverWaitsForItself ==
  /\ rf_tracer.pc \in {"wait_connect", "wait_sendmsg"} => TraceeCanFinish
  /\ rf_tracer.pc = "accept" => (rf_sock.backlog > 0 \/ TraceeCanFinish)
  /\ rf_tracer.pc = "recvmsg" => rf_sock.queue # <<>>

OrigAx == IF rg_files.arch = "x86" THEN "orig_eax" ELSE "orig_rax"

BothNegative(field) ==
  IsNegative(rg_files.reg1[field]) /\ IsNegative(rg_files.reg2[field])

\* C24 (as stated): orig_eax / orig_rax is never reported as a mismatch when
\* either of the two values is negative.
C24_SkippedWhenEitherNegative ==
  rg_cmp.done /\ (IsNegative(rg_files.reg1[OrigAx]) \/ IsNegative(rg_files.reg2[OrigAx]))
    => OrigAx \notin rg_cmp.mismatched

\* C24 (as the code has it): orig_eax / orig_rax is left out of the comparison
\* when both values are negative, and is compared, and reported when the two
\* differ, when at least one of them is non-negative.
C24_SkippedWhenBothNegative ==
  rg_cmp.done =>
    (OrigAx \in rg_cmp.mismatched
       <=> /\ rg_files.reg1[OrigAx] # rg_files.reg2[OrigAx]
           /\ ~BothNegative(OrigAx))

\* Two different negative values of orig_eax / orig_rax went through the
\* comparison and the files were found to match.
C24_NegativesDifferAndMatch ==
  /\ rg_cmp.done
  /\ BothNegative(OrigAx)
  /\ rg_files.reg1[OrigAx] # rg_files.reg2[OrigAx]
  /\ rg_cmp.match

\* The segment registers, by the names the architecture's user_regs_struct
\* gives them.
MaskedOutSegments ==
  IF rg_files.arch = "x86" THEN {"xcs", "xss", "xds", "xes"} ELSE {"cs", "ss", "ds", "es"}

WholeSegments == IF rg_files.arch = "x86" THEN {"xfs", "xgs"} ELSE {"fs", "gs"}

\* C25 (as stated): a segment register is reported as a mismatch exactly when
\* the two values differ within their low 16 bits.
C25_SegmentsLow16 ==
  rg_cmp.done =>
    \A s \in MaskedOutSegments \cup WholeSegments :
      s \in rg_cmp.mismatched <=> rg_files.reg1[s][1] # rg_files.reg2[s][1]

\* C25 (as the code has it): cs, ss, ds and es are not compared at all, and fs
\* and gs are compared over their whole 32-bit field, so that a difference in
\* any bit of fs or gs is reported as a mismatch.
C25_SegmentsWholeOrNot ==
  rg_cmp.done =>
    /\ \A s \in MaskedOutSegments : s \notin rg_cmp.mismatched
    /\ \A s \in WholeSegments :
         s \in rg_cmp.mismatched <=> rg_files.reg1[s] # rg_files.reg2[s]

\* The comparison has reported a segment register whose two values differ only
\* above bit 15, with another one that differs in its low 16 bits unreported.
C25_HighBitsReportedLowBitsNot ==
  /\ rg_cmp.done
  /\ \E s \in WholeSegments :
       /\ rg_files.reg1[s][1] = rg_files.reg2[s][1]
       /\ s \in rg_cmp.mismatched
  /\ \E s \in MaskedOutSegments :
       /\ rg_files.reg1[s][1] # rg_files.reg2[s][1]
       /\ s \notin rg_cmp.mismatched

\* C27: the tasks replay resumes are, in order, the tasks whose tids the frames
\* of the trace name; priorities have no part in it.
C27_ResumedTaskIsFramesTask ==
  \A i \in 1..Len(rp_resumed) : rp_resumed[i].rec_tid = rp_session.trace[i].tid

\* Replay has gone through the whole trace and has resumed a task other than
\* the one with the highest priority, and then a different one again.
C27_ResumedAgainstPriority ==
  /\ Len(rp_resumed) = TraceLen
  /\ \E i \in 1..(TraceLen - 1) :
       /\ rp_resumed[i] # HighestPriorityTask(rp_session)
       /\ rp_resumed[i + 1] # rp_resumed[i]


\* ---- claims about the requests that query or select a thread ------------

\* C39: a request that queries or selects the target thread is answered,
\* with a reply of its kind, whether or not the task it names exists: the
\* server does not fail on it, and names no thread that is not there.
C39_ThreadRequestsAnswered ==
  [][th_gdb' # th_gdb =>
       /\ th_gdb'.state = "serving"
       /\ th_gdb'.reply # <<>>
       /\ th_gdb'.reply # <<"get_thread_extra_info", 0>>]_vars
\* The Task object the kept TaskUid was taken from is still in the session.
KeptTaskLives ==
  \E rec_tid \in DOMAIN tm_session.task_map : tm_session.task_map[rec_tid].id = tm_gdb.of

\* C26: find_task(TaskUid) returns the task the TaskUid was taken from while
\* that task is in the session, with tid and serial both matching, and null
\* once it has exited, also when a later task has the same tid.
C26_TaskUidResolvesToItsTask ==
  tm_gdb.found.done =>
    IF KeptTaskLives
      THEN /\ tm_gdb.found.task.id = tm_gdb.of
           /\ tuid(tm_gdb.found.task) = tm_gdb.uid
      ELSE tm_gdb.found.task = NoTask

\* find_task has returned null for the TaskUid of an exited task while a later
\* task with the same tid is in the session.
C26_PidReusedNotResolved ==
  /\ tm_gdb.found.done
  /\ tm_gdb.found.task = NoTask
  /\ ~KeptTaskLives
  /\ tm_gdb.uid.tid \in DOMAIN tm_session.task_map

\* The version file is there, readable, and holds the engine's version.
VersionFileFits ==
  tv_dir.version.good /\ tv_dir.version.parses /\ tv_dir.version.number = TRACE_VERSION

Opened == tv_reader.state # "none"

\* C28 (as stated): opening a trace whose version file is missing or does not
\* hold the engine's version ends the process before any frame is read, with a
\* message that names the file and the expected version.
C28_FatalNamesFileAndExpected ==
  Opened /\ ~VersionFileFits =>
    /\ tv_reader.state = "exited"
    /\ tv_reader.frames_read = 0
    /\ tv_reader.stderr.file = version_path(tv_dir.trace_dir)
    /\ tv_reader.stderr.expected = <<TRACE_VERSION>>

\* C28 (as the code has it): the process ends before any frame is read, with a
\* message that names the file; the message also names the expected version
\* when the file could be opened, and does not when the file is missing.
C28_FatalNamesFile ==
  Opened /\ ~VersionFileFits =>
    /\ tv_reader.state = "exited"
    /\ tv_reader.frames_read = 0
    /\ tv_reader.stderr.file = version_path(tv_dir.trace_dir)
    /\ tv_reader.stderr.expected = (IF tv_dir.version.good THEN <<TRACE_VERSION>> ELSE <<>>)

\* A trace that holds frames and whose version file is missing was opened, and
\* the process has exited.
C28_MissingFileExited ==
  /\ tv_reader.state = "exited"
  /\ ~tv_dir.version.good
  /\ tv_dir.frames > 0

\* C23: what untraced_syscall_base returns is rec->ret during replay and the
\* kernel's result during recording, and the instructions that choose between
\* the two are the same three, test, cmovne and xor, in both cases: the choice
\* is a conditional move, not a branch.
C23_ReplayReturnsRecordedRet ==
  us_cpu.pc = "returned" =>
    /\ us_cpu.ret = (IF us_env.in_replay # 0 THEN us_env.rec_ret ELSE us_cpu.raw)
    /\ us_cpu.executed = <<"test", "cmovne", "xor">>

\* A replaying wrapper has returned a recorded ret that is not what its
\* syscall instruction left in the register.
C23_ReplayedOverLiveValue ==
  /\ us_cpu.pc = "returned"
  /\ us_env.in_replay = 1
  /\ us_cpu.ret = us_env.rec_ret
  /\ us_cpu.ret # us_cpu.raw

====
